---- MODULE Spec2Model ----
(***************************************************************************)
(* Structural XML diff (exypton/scripts, xml_struct_diff-10.py and the     *)
(* identical logic of xml_struct_diff-11.py).                              *)
(*                                                                         *)
(* Representation.                                                         *)
(*   - An Element is a record [tag, attrib, text, children].               *)
(*   - tag and attribute names are strings; Python's string order on them  *)
(*     is the position in NameOrder.                                       *)
(*   - a text (and an attribute value) is a natural number standing for a  *)
(*     string: 0 is None or "", 1 is a whitespace-only string, n >= 2 is   *)
(*     the decimal numeral of n - 2 (with leading zeros, all of one        *)
(*     length), so that m < n exactly when the string of m sorts before    *)
(*     the string of n.                                                    *)
(*   - attrib is the sequence of <<name, value>> items of the dict, in     *)
(*     insertion order, names unique.                                      *)
(*   - an output Element also carries what serialize reads of its          *)
(*     attributes: diff_style (__diff_style__, "" when absent),            *)
(*     append_spacer (int of __append_spacer__, 0 when absent) and lines   *)
(*     (int of lines, 1 when absent); an element copied from the input     *)
(*     has those of the input's attributes. Its text is [style, body]:     *)
(*     body wrapped in a span of that style when style # "".               *)
(*   - made_by records which call created the object of an output Element: *)
(*     "deepcopy" or "Element" (ET.Element); the objects of the input      *)
(*     trees are those the parser made.                                    *)
(*   - the documents of the universe have no attribute __diff_style__, and *)
(*     their lines and __append_spacer__ attributes hold numerals.         *)
(*   - sequence indices of the matcher are 0-based as in the source.       *)
(***************************************************************************)
EXTENDS Integers, Sequences, FiniteSets, TLC

\* ------------------------------------------------------------------------
\* Bounds of the input universe
\* ------------------------------------------------------------------------
MaxKids == 2

\* difflib.SequenceMatcher: autojunk applies to a second sequence of at
\* least this many elements
AutojunkMin == 200

\* ------------------------------------------------------------------------
\* Values
\* ------------------------------------------------------------------------
None == [tag |-> "__none__"]

CONTEXT_TAGS == {"name", "id", "description", "type", "vlan-id"}

NameOrder == <<"__append_spacer__", "__spacer__", "a", "b", "c", "config",
               "description", "id", "j", "k", "key", "lines", "name",
               "neighbor-address", "prefix", "text", "type", "vlan-id",
               "x", "y">>

NameRank(s) == CHOOSE i \in 1..Len(NameOrder) : NameOrder[i] = s

Range(s) == {s[i] : i \in 1..Len(s)}

\* TRUE; its evaluation computes v. A loop over the children of a node is
\* split in halves, and the state after the first half is computed before
\* the second half starts, as in the sequential source.
Done(v) == v = v

\* the sequence f[lo], ..., f[hi], each element computed once
RECURSIVE Tuple(_, _, _)
Tuple(f, lo, hi) ==
    IF lo > hi THEN <<>>
    ELSE IF lo = hi THEN <<f[lo]>>
    ELSE LET mid == (lo + hi) \div 2
         IN  Tuple(f, lo, mid) \o Tuple(f, mid + 1, hi)

Node(tag, attrib, text, children) ==
    [tag |-> tag, attrib |-> attrib, text |-> text, children |-> children]

Leaf(tag, text) == Node(tag, <<>>, text, <<>>)

\* str.strip() of (text or "")
strip(t) == IF t = 1 THEN 0 ELSE t

\* escape_html: "" for a falsy text; the visible strings of the model hold
\* no &, < or >, so the replacements leave them as they are
escape_html(s) == s

\* ------------------------------------------------------------------------
\* Python's order on keys (tuples compare lexicographically)
\* ------------------------------------------------------------------------
\* -1, 0, 1 for two (name, value) items
ItemCmp(p, q) ==
    IF p[1] # q[1] THEN (IF NameRank(p[1]) < NameRank(q[1]) THEN -1 ELSE 1)
    ELSE IF p[2] # q[2] THEN (IF p[2] < q[2] THEN -1 ELSE 1)
    ELSE 0

RECURSIVE ItemsCmp(_, _, _)
ItemsCmp(s, t, i) ==
    IF i > Len(s) /\ i > Len(t) THEN 0
    ELSE IF i > Len(s) THEN -1
    ELSE IF i > Len(t) THEN 1
    ELSE LET c == ItemCmp(s[i], t[i])
         IN  IF c # 0 THEN c ELSE ItemsCmp(s, t, i + 1)

RECURSIVE KeyCmp(_, _)
RECURSIVE KeysCmp(_, _, _)
\* a key is <<tag, sorted attribute items, stripped text, child keys>>
KeyCmp(k1, k2) ==
    IF k1[1] # k2[1] THEN (IF NameRank(k1[1]) < NameRank(k2[1]) THEN -1 ELSE 1)
    ELSE LET c == ItemsCmp(k1[2], k2[2], 1)
         IN  IF c # 0 THEN c
             ELSE IF k1[3] # k2[3] THEN (IF k1[3] < k2[3] THEN -1 ELSE 1)
             ELSE KeysCmp(k1[4], k2[4], 1)

KeysCmp(s, t, i) ==
    IF i > Len(s) /\ i > Len(t) THEN 0
    ELSE IF i > Len(s) THEN -1
    ELSE IF i > Len(t) THEN 1
    ELSE LET c == KeyCmp(s[i], t[i])
         IN  IF c # 0 THEN c ELSE KeysCmp(s, t, i + 1)

\* sorted(node.attrib.items())
RECURSIVE sorted_items(_)
sorted_items(items) ==
    IF items = <<>> THEN <<>>
    ELSE LET m == CHOOSE i \in 1..Len(items) :
                     \A j \in 1..Len(items) : ItemCmp(items[i], items[j]) <= 0
             rest == [j \in 1..(Len(items) - 1) |->
                         IF j < m THEN items[j] ELSE items[j + 1]]
         IN  <<items[m]>> \o sorted_items(rest)

\* the pairs left in document order
unsorted_by_key(pairs) == pairs

\* the pairs rotated by one place
rotated_by_key(pairs) ==
    [i \in 1..Len(pairs) |-> pairs[(i % Len(pairs)) + 1]]

\* sorted(zip(node, child_keys), key=lambda x: x[1]): stable, by key.
\* pairs is a sequence of [node, key]; a pair lands after every pair with a
\* smaller key and after the earlier pairs with an equal key.
sorted_by_key(pairs) ==
    LET n  == Len(pairs)
        at == Tuple([i \in 1..n |->
                 1 + Cardinality({j \in 1..n :
                        LET c == KeyCmp(pairs[j].key, pairs[i].key)
                        IN  c < 0 \/ (c = 0 /\ j < i)})], 1, n)
    IN  Tuple([p \in 1..n |-> pairs[CHOOSE i \in 1..n : at[i] = p]], 1, n)

\* ------------------------------------------------------------------------
\* sort_and_key: canonical deep sort and key generation
\* ------------------------------------------------------------------------
\* the entries that the calls on the children lo..hi left in node_keys
RECURSIVE merge_keys(_, _, _)
merge_keys(kids, lo, hi) ==
    IF lo > hi THEN <<>>
    ELSE IF lo = hi THEN kids[lo].keys
    ELSE LET mid == (lo + hi) \div 2
         IN  merge_keys(kids, lo, mid) @@ merge_keys(kids, mid + 1, hi)

RECURSIVE sort_and_key(_)
sort_and_key(node) ==
    LET kids == Tuple([i \in 1..Len(node.children) |->
                          sort_and_key(node.children[i])], 1, Len(node.children))
        children_with_keys == sorted_by_key(kids)
        my_sorted_child_keys ==
            [i \in 1..Len(children_with_keys) |-> children_with_keys[i].key]
        sorted_node ==
            [node EXCEPT !.children =
                [i \in 1..Len(children_with_keys) |-> children_with_keys[i].node]]
        my_key == <<node.tag, sorted_items(node.attrib), strip(node.text),
                    my_sorted_child_keys>>
    IN  [node |-> sorted_node, key |-> my_key,
         keys |-> (sorted_node :> my_key) @@ merge_keys(kids, 1, Len(kids))]

\* ------------------------------------------------------------------------
\* Output elements
\* ------------------------------------------------------------------------
PlainText(body) == [style |-> "", body |-> body]

SpanText(style, body) == [style |-> style, body |-> body]

\* elem.text and elem.text.strip(): a span is never blank
TextShown(text) == text.style # "" \/ strip(text.body) # 0

\* int(s) of a numeral s
int(s) == s - 2

\* str(n): a numeral of n
str(n) == n + 2

\* int(elem.get(name, default))
attr_int(attrib, name, default) ==
    IF \E i \in 1..Len(attrib) : attrib[i][1] = name
    THEN int(attrib[CHOOSE i \in 1..Len(attrib) : attrib[i][1] = name][2])
    ELSE default

\* ET.Element(tag, attrib=attrib)
Element(tag, attrib) ==
    [tag |-> tag, attrib |-> attrib, text |-> PlainText(0), children |-> <<>>,
     diff_style |-> "",
     append_spacer |-> attr_int(attrib, "__append_spacer__", 0),
     lines |-> attr_int(attrib, "lines", 1),
     made_by |-> "Element"]

\* ET.Element("__spacer__", lines=str(lines))
Spacer(lines) == Element("__spacer__", <<<<"lines", str(lines)>>>>)

\* the element itself, not a copy: what is written to it is written to the
\* input tree
RECURSIVE same_object(_)
same_object(node) ==
    [tag |-> node.tag, attrib |-> node.attrib, text |-> PlainText(node.text),
     children |-> [i \in 1..Len(node.children) |-> same_object(node.children[i])],
     diff_style |-> "",
     append_spacer |-> attr_int(node.attrib, "__append_spacer__", 0),
     lines |-> attr_int(node.attrib, "lines", 1),
     made_by |-> "parser"]

\* deepcopy of an input element: new objects for the element and all its
\* descendants
RECURSIVE deepcopy(_)
deepcopy(node) ==
    [tag |-> node.tag, attrib |-> node.attrib, text |-> PlainText(node.text),
     children |-> [i \in 1..Len(node.children) |-> deepcopy(node.children[i])],
     diff_style |-> "",
     append_spacer |-> attr_int(node.attrib, "__append_spacer__", 0),
     lines |-> attr_int(node.attrib, "lines", 1),
     made_by |-> "deepcopy"]

RECURSIVE mark_tree(_, _)
mark_tree(element, style) ==
    [element EXCEPT
        !.text = IF TextShown(element.text)
                 THEN SpanText(style, escape_html(element.text.body))
                 ELSE element.text,
        !.diff_style = style,
        !.children = [i \in 1..Len(element.children) |->
                         mark_tree(element.children[i], style)]]

\* s[lo] + ... + s[hi]
RECURSIVE SumSeq(_, _, _)
SumSeq(s, lo, hi) ==
    IF lo > hi THEN 0
    ELSE IF lo = hi THEN s[lo]
    ELSE LET mid == (lo + hi) \div 2
         IN  SumSeq(s, lo, mid) + SumSeq(s, mid + 1, hi)

RECURSIVE count_lines(_, _)
count_lines(elem, is_leaf) ==
    IF elem = None THEN 0
    ELSE IF is_leaf THEN 1
    ELSE 2 + (IF TextShown(elem.text) THEN 1 ELSE 0)
           + SumSeq([i \in 1..Len(elem.children) |->
                        count_lines(elem.children[i],
                                    Len(elem.children[i].children) = 0)],
                    1, Len(elem.children))

\* ------------------------------------------------------------------------
\* difflib.SequenceMatcher(None, a, b): no junk function, autojunk on.
\* a and b are sequences of keys; positions are 0-based.
\* ------------------------------------------------------------------------
RECURSIVE AscendingSeq(_)
AscendingSeq(S) ==
    IF S = {} THEN <<>>
    ELSE LET m == CHOOSE x \in S : \A y \in S : x <= y
         IN  <<m>> \o AscendingSeq(S \ {m})

\* __chain_b: for each element of b the ascending list of its positions;
\* when len(b) >= 200 the elements that occur more than len(b) // 100 + 1
\* times are popular and are deleted from the mapping
chain_b(b) ==
    LET n       == Len(b)
        idxs(e) == {j \in 0..(n - 1) : b[j + 1] = e}
        ntest   == (n \div 100) + 1
        popular == IF n >= AutojunkMin
                   THEN {e \in Range(b) : Cardinality(idxs(e)) > ntest}
                   ELSE {}
    IN  [e \in Range(b) \ popular |-> AscendingSeq(idxs(e))]

\* j2len.get(j, 0); a j2len is the set of its <<j, length>> entries
j2lenget(j2len, j) ==
    IF \E p \in j2len : p[1] = j
    THEN (CHOOSE p \in j2len : p[1] = j)[2]
    ELSE 0

\* the inner loop of find_longest_match over the positions js of a[i] in b
RECURSIVE flm_cols(_, _, _, _, _, _, _, _)
flm_cols(js, n, i, blo, bhi, j2len, newj2len, best) ==
    IF n > Len(js) THEN [newj2len |-> newj2len, best |-> best]
    ELSE LET j == js[n]
         IN  IF j < blo
             THEN flm_cols(js, n + 1, i, blo, bhi, j2len, newj2len, best)
             ELSE IF j >= bhi THEN [newj2len |-> newj2len, best |-> best]
             ELSE LET k == j2lenget(j2len, j - 1) + 1
                      nb == IF k > best.size
                            THEN [i |-> i - k + 1, j |-> j - k + 1, size |-> k]
                            ELSE best
                  IN  flm_cols(js, n + 1, i, blo, bhi, j2len,
                               newj2len \cup {<<j, k>>}, nb)

\* the outer loop of find_longest_match: the rows i in range(lo, hi) in
\* ascending order, from the state st = [newj2len (the row before), best]
RECURSIVE flm_rows(_, _, _, _, _, _, _)
flm_rows(a, b2j, lo, hi, blo, bhi, st) ==
    IF lo >= hi THEN st
    ELSE IF hi - lo = 1
    THEN LET js == IF a[lo + 1] \in DOMAIN b2j THEN b2j[a[lo + 1]] ELSE <<>>
         IN  flm_cols(js, 1, lo, blo, bhi, st.newj2len, {}, st.best)
    ELSE LET mid == (lo + hi) \div 2
             st1 == flm_rows(a, b2j, lo, mid, blo, bhi, st)
         IN  IF Done(st1) THEN flm_rows(a, b2j, mid, hi, blo, bhi, st1) ELSE st1

\* while besti > alo and bestj > blo and a[besti-1] == b[bestj-1]
\* (no element is junk)
RECURSIVE flm_extend_back(_, _, _, _, _)
flm_extend_back(a, b, alo, blo, best) ==
    IF best.i > alo /\ best.j > blo /\ a[best.i] = b[best.j]
    THEN flm_extend_back(a, b, alo, blo,
             [i |-> best.i - 1, j |-> best.j - 1, size |-> best.size + 1])
    ELSE best

\* while besti+bestsize < ahi and bestj+bestsize < bhi and
\*       a[besti+bestsize] == b[bestj+bestsize]
RECURSIVE flm_extend_fwd(_, _, _, _, _)
flm_extend_fwd(a, b, ahi, bhi, best) ==
    IF best.i + best.size < ahi /\ best.j + best.size < bhi
       /\ a[best.i + best.size + 1] = b[best.j + best.size + 1]
    THEN flm_extend_fwd(a, b, ahi, bhi, [best EXCEPT !.size = best.size + 1])
    ELSE best

find_longest_match(a, b, b2j, alo, ahi, blo, bhi) ==
    LET best0 == flm_rows(a, b2j, alo, ahi, blo, bhi,
                          [newj2len |-> {},
                           best |-> [i |-> alo, j |-> blo, size |-> 0]]).best
        best1 == flm_extend_back(a, b, alo, blo, best0)
    IN  flm_extend_fwd(a, b, ahi, bhi, best1)

\* the queue loop of get_matching_blocks followed by matching_blocks.sort():
\* the blocks left of a match, the match, the blocks right of it
RECURSIVE matching_blocks(_, _, _, _, _, _, _)
matching_blocks(a, b, b2j, alo, ahi, blo, bhi) ==
    LET x == find_longest_match(a, b, b2j, alo, ahi, blo, bhi)
    IN  IF x.size = 0 THEN <<>>
        ELSE (IF alo < x.i /\ blo < x.j
              THEN matching_blocks(a, b, b2j, alo, x.i, blo, x.j) ELSE <<>>)
             \o <<x>> \o
             (IF x.i + x.size < ahi /\ x.j + x.size < bhi
              THEN matching_blocks(a, b, b2j, x.i + x.size, ahi, x.j + x.size, bhi)
              ELSE <<>>)

\* collapsing of adjacent blocks; cur is (i1, j1, k1)
RECURSIVE non_adjacent(_, _, _)
non_adjacent(blocks, n, cur) ==
    IF n > Len(blocks) THEN (IF cur.size # 0 THEN <<cur>> ELSE <<>>)
    ELSE LET x == blocks[n]
         IN  IF cur.i + cur.size = x.i /\ cur.j + cur.size = x.j
             THEN non_adjacent(blocks, n + 1, [cur EXCEPT !.size = cur.size + x.size])
             ELSE (IF cur.size # 0 THEN <<cur>> ELSE <<>>)
                  \o non_adjacent(blocks, n + 1, x)

get_matching_blocks(a, b) ==
    non_adjacent(matching_blocks(a, b, chain_b(b), 0, Len(a), 0, Len(b)), 1,
                 [i |-> 0, j |-> 0, size |-> 0])
    \o <<[i |-> Len(a), j |-> Len(b), size |-> 0]>>

Opcode(tag, i1, i2, j1, j2) ==
    [tag |-> tag, i1 |-> i1, i2 |-> i2, j1 |-> j1, j2 |-> j2]

RECURSIVE opcodes_from(_, _, _, _)
opcodes_from(blocks, n, i, j) ==
    IF n > Len(blocks) THEN <<>>
    ELSE LET x   == blocks[n]
             tag == IF i < x.i /\ j < x.j THEN "replace"
                    ELSE IF i < x.i THEN "delete"
                    ELSE IF j < x.j THEN "insert"
                    ELSE ""
         IN  (IF tag # "" THEN <<Opcode(tag, i, x.i, j, x.j)>> ELSE <<>>)
             \o (IF x.size # 0
                 THEN <<Opcode("equal", x.i, x.i + x.size, x.j, x.j + x.size)>>
                 ELSE <<>>)
             \o opcodes_from(blocks, n + 1, x.i + x.size, x.j + x.size)

get_opcodes(a, b) == opcodes_from(get_matching_blocks(a, b), 1, 0, 0)

\* ------------------------------------------------------------------------
\* State of one invocation of xml_struct_diff
\* ------------------------------------------------------------------------
VARIABLES
    pc,            \* the statement of xml_struct_diff that runs next
    before_xml,    \* the two arguments
    after_xml,
    root_before,   \* parse_clean(before_xml)
    root_after,    \* parse_clean(after_xml)
    node_keys,     \* the sort keys, by element
    stats,         \* self.stats
    result_left,   \* the triple returned by compare_nodes on the roots
    result_right,
    any_change,
    calls,         \* history: the calls of compare_nodes, in call order
    left_out,      \* serialize(result_left), serialize(result_right)
    right_out,
    ret            \* the returned mapping

vars == <<pc, before_xml, after_xml, root_before, root_after, node_keys, stats,
          result_left, result_right, any_change, calls, left_out, right_out, ret>>

\* node_keys.get(c)
node_keys_get(c) == IF c \in DOMAIN node_keys THEN node_keys[c] ELSE <<>>

\* ------------------------------------------------------------------------
\* compare_nodes
\* A result is [res_a, res_b, changed] with the statistics after the call
\* and the history of the calls made (each with the statistics at its entry
\* s0 and at its return s1, and its depth below the call on the roots).
\* ------------------------------------------------------------------------
Returned(node_a, node_b, res_a, res_b, changed, s0, s1, depth, inner, slots) ==
    [res_a |-> res_a, res_b |-> res_b, changed |-> changed, stats |-> s1,
     calls |-> <<[a |-> node_a, b |-> node_b, res_a |-> res_a, res_b |-> res_b,
                  changed |-> changed, s0 |-> s0, s1 |-> s1, depth |-> depth,
                  slots |-> slots]>>
               \o inner]

\* the state of the loop over the opcodes: the children appended to out_a
\* and out_b, has_child_changes, the statistics, the calls made, and a log of
\* the passes of the loop bodies (slots): the children c_a and c_b read by the
\* pass, how it treated them ("context": copied as context, "equal" and
\* "replace": compared in a block of that kind, "one_sided"), what it
\* appended, the flag after it and the statistics before and after it
Appended(acc, new_a, new_b, has, r_stats, r_calls, how, c_a, c_b) ==
    [out_a |-> acc.out_a \o new_a, out_b |-> acc.out_b \o new_b,
     has_child_changes |-> has, stats |-> r_stats,
     calls |-> acc.calls \o r_calls,
     slots |-> Append(acc.slots,
                      [how |-> how, a |-> c_a, b |-> c_b,
                       out_a |-> new_a, out_b |-> new_b,
                       flag |-> has, s0 |-> acc.stats, s1 |-> r_stats])]

\* the attributes left out of the comparison
is_modified_text_only(node_a, node_b) ==
    strip(node_a.text) # strip(node_b.text)

\* the text of node_a compared untrimmed
is_modified_untrimmed(node_a, node_b) ==
    node_a.text # strip(node_b.text)
    \/ Range(node_a.attrib) # Range(node_b.attrib)

\* text_a != text_b, or node_a.attrib != node_b.attrib (dicts: the same items
\* in any order)
is_modified(node_a, node_b) ==
    strip(node_a.text) # strip(node_b.text)
    \/ Range(node_a.attrib) # Range(node_b.attrib)

\* a counter that goes down
decremented(s, counter) == [s EXCEPT ![counter] = @ - 1]

\* self.stats[counter] += 1
incremented(s, counter) == [s EXCEPT ![counter] = @ + 1]

\* no pair is dropped
never_pruned(modified, has_child_changes) == FALSE

\* a pair is dropped whenever none of its children changed
pruned_by_children(modified, has_child_changes) == ~has_child_changes

\* if not is_modified and not has_child_changes: return (None, None, False)
pruned(modified, has_child_changes) == ~modified /\ ~has_child_changes

RECURSIVE compare_nodes(_, _, _, _)
RECURSIVE child_slot(_, _, _, _, _)
RECURSIVE child_slots(_, _, _, _, _, _, _)
RECURSIVE opcode_loop(_, _, _, _)

\* the copies of a context child marked in the grey of the unchanged tags
context_copy_styled(c_a, c_b, acc) ==
    Appended(acc,
        <<mark_tree([deepcopy(c_a) EXCEPT
                        !.text = PlainText(escape_html(strip(c_a.text)))],
                    "color:#6b7280;")>>,
        <<mark_tree([deepcopy(c_b) EXCEPT
                        !.text = PlainText(escape_html(strip(c_b.text)))],
                    "color:#6b7280;")>>,
        acc.has_child_changes, acc.stats, <<>>, "context", c_a, c_b)

\* the copies of a context child, taken as a change of the parent
context_copy_counted(c_a, c_b, acc) ==
    Appended(acc,
        <<[deepcopy(c_a) EXCEPT !.text = PlainText(escape_html(strip(c_a.text)))]>>,
        <<[deepcopy(c_b) EXCEPT !.text = PlainText(escape_html(strip(c_b.text)))]>>,
        TRUE, acc.stats, <<>>, "context", c_a, c_b)

\* if c_a.tag in CONTEXT_TAGS: the copies res_ctxt_a and res_ctxt_b, with the
\* stripped text, are appended; has_child_changes is left as it is
context_copy(c_a, c_b, acc) ==
    Appended(acc,
        <<[deepcopy(c_a) EXCEPT !.text = PlainText(escape_html(strip(c_a.text)))]>>,
        <<[deepcopy(c_b) EXCEPT !.text = PlainText(escape_html(strip(c_b.text)))]>>,
        acc.has_child_changes, acc.stats, <<>>, "context", c_a, c_b)

\* child_res_a, child_res_b, changed = compare_nodes(c_a, c_b)
\* if changed: has_child_changes = True, and both results are appended
compared(acc, r, branch) ==
    IF r.changed
    THEN Appended(acc, <<r.res_a>>, <<r.res_b>>, TRUE, r.stats, r.calls,
                  branch, r.calls[1].a, r.calls[1].b)
    ELSE Appended(acc, <<>>, <<>>, acc.has_child_changes, r.stats, r.calls,
                  branch, r.calls[1].a, r.calls[1].b)

\* the results of compare_nodes(c_a, None) or compare_nodes(None, c_b) are
\* appended, and has_child_changes = True
one_sided(acc, r) ==
    Appended(acc, <<r.res_a>>, <<r.res_b>>, TRUE, r.stats, r.calls,
             "one_sided", r.calls[1].a, r.calls[1].b)

\* one pass of a loop body over the children of a pair, by the branch that
\* holds it: c_a and c_b are the children it reads (None when it reads none)
\*   "equal"   an equal block
\*   "replace" a replace block, the first min_len positions: a pair of
\*             different tags is compare_nodes(c_a, None), then
\*             compare_nodes(None, c_b)
\*   "remove"  a delete block or the rest of a longer replace side
\*   "add"     an insert block or the rest of a longer replace side
child_slot(branch, c_a, c_b, depth, acc) ==
    IF branch = "equal" /\ c_a.tag \in CONTEXT_TAGS
    THEN context_copy(c_a, c_b, acc)
    ELSE IF branch = "equal" \/ (branch = "replace" /\ c_a.tag = c_b.tag)
    THEN compared(acc, compare_nodes(c_a, c_b, acc.stats, depth + 1), branch)
    ELSE IF branch = "replace"
    THEN child_slot("add", None, c_b, depth,
                    child_slot("remove", c_a, None, depth, acc))
    ELSE IF branch = "remove"
    THEN one_sided(acc, compare_nodes(c_a, None, acc.stats, depth + 1))
    ELSE one_sided(acc, compare_nodes(None, c_b, acc.stats, depth + 1))

\* the rest of a loop, once the state acc1 after its first half is computed
child_slots_from(branch, mid, hi, i0, j0, ctx, acc1) ==
    IF Done(acc1) THEN child_slots(branch, mid, hi, i0, j0, ctx, acc1) ELSE acc1

\* for k in range(lo, hi): the body of the branch on children_a[i0 + k] and
\* children_b[j0 + k] (0-based positions)
child_slots(branch, lo, hi, i0, j0, ctx, acc) ==
    IF lo >= hi THEN acc
    ELSE IF hi - lo = 1
    THEN child_slot(branch,
                    IF branch = "add" THEN None ELSE ctx.children_a[i0 + lo + 1],
                    IF branch = "remove" THEN None ELSE ctx.children_b[j0 + lo + 1],
                    ctx.depth, acc)
    ELSE child_slots_from(branch, (lo + hi) \div 2, hi, i0, j0, ctx,
             child_slots(branch, lo, (lo + hi) \div 2, i0, j0, ctx, acc))

Min(x, y) == IF x <= y THEN x ELSE y

\* the rest of the longer side left out
replace_rest_skipped(op, len_a, len_b, ctx, paired) == paired

\* the rest of a replace block after its first min_len pairs:
\* if len_a > len_b the children of the longer before side are removed,
\* elif len_b > len_a the children of the longer after side are added
replace_rest(op, len_a, len_b, ctx, paired) ==
    IF len_a > len_b
    THEN child_slots("remove", len_b, len_a, op.i1, op.j1, ctx, paired)
    ELSE IF len_b > len_a
    THEN child_slots("add", len_a, len_b, op.i1, op.j1, ctx, paired)
    ELSE paired

\* the body of the loop over the opcodes, for one opcode
opcode_body(op, ctx, acc) ==
    IF op.tag = "equal"
    THEN child_slots("equal", 0, op.i2 - op.i1, op.i1, op.j1, ctx, acc)
    ELSE IF op.tag = "replace"
    THEN replace_rest(op, op.i2 - op.i1, op.j2 - op.j1, ctx,
             child_slots("replace", 0, Min(op.i2 - op.i1, op.j2 - op.j1),
                         op.i1, op.j1, ctx, acc))
    ELSE IF op.tag = "delete"
    THEN child_slots("remove", op.i1, op.i2, 0, 0, ctx, acc)
    ELSE IF op.tag = "insert"
    THEN child_slots("add", op.j1, op.j2, 0, 0, ctx, acc)
    ELSE acc

\* the opcodes from the n-th on, once the state acc1 after the opcodes before
\* it is computed
opcode_loop_from(ops, n, ctx, acc1) ==
    IF Done(acc1) THEN opcode_loop(ops, n, ctx, acc1) ELSE acc1

\* for tag, i1, i2, j1, j2 in matcher.get_opcodes()
opcode_loop(ops, n, ctx, acc) ==
    IF n > Len(ops) THEN acc
    ELSE opcode_loop_from(ops, n + 1, ctx, opcode_body(ops[n], ctx, acc))

\* keys_a = [node_keys.get(c) for c in children_a]
child_keys(node) ==
    Tuple([i \in 1..Len(node.children) |-> node_keys_get(node.children[i])],
          1, Len(node.children))

\* out_a = ET.Element(node_a.tag, node_a.attrib) with the children appended
\* by the loop and the text and style set after it
out_element(node, modified, children) ==
    [Element(node.tag, node.attrib) EXCEPT
        !.children = children,
        !.text = IF modified
                 THEN SpanText("color:#ff8800;", escape_html(strip(node.text)))
                 ELSE PlainText(escape_html(strip(node.text))),
        !.diff_style = IF modified THEN "color:#ff8800;" ELSE ""]

\* the end of compare_nodes on a pair of the same tag, after the loop over the
\* opcodes left acc: the modified counter, the pruning, the return
same_tag_result(node_a, node_b, modified, acc, s0, depth) ==
    LET s1 == IF modified THEN incremented(acc.stats, "modified") ELSE acc.stats
    IN  \* Pruning Logic
        IF pruned(modified, acc.has_child_changes)
        THEN Returned(node_a, node_b, None, None, FALSE, s0, s1, depth, acc.calls,
                      acc.slots)
        ELSE Returned(node_a, node_b,
                      out_element(node_a, modified, acc.out_a),
                      out_element(node_b, modified, acc.out_b),
                      TRUE, s0, s1, depth, acc.calls, acc.slots)

\* Node Removed: the marked copy and, for the other side, a spacer of its
\* line count
removed_result(node_a, res_a, s0, depth) ==
    Returned(node_a, None, res_a,
             Spacer(count_lines(res_a, Len(res_a.children) = 0)),
             TRUE, s0, incremented(s0, "removed"), depth, <<>>, <<>>)

\* Node Added: a spacer of the line count of the marked copy, and the copy
added_result(node_b, res_b, s0, depth) ==
    Returned(None, node_b,
             Spacer(count_lines(res_b, Len(res_b.children) = 0)), res_b,
             TRUE, s0, incremented(s0, "added"), depth, <<>>, <<>>)

\* Tag Mismatch: both marked copies, the shorter one with the missing lines
\* as __append_spacer__
mismatch_result(node_a, node_b, res_a, res_b, s0, depth) ==
    LET lines_a == count_lines(res_a, Len(res_a.children) = 0)
        lines_b == count_lines(res_b, Len(res_b.children) = 0)
    IN  Returned(node_a, node_b,
                 IF lines_a < lines_b
                 THEN [res_a EXCEPT !.append_spacer = int(str(lines_b - lines_a))]
                 ELSE res_a,
                 IF lines_b < lines_a
                 THEN [res_b EXCEPT !.append_spacer = int(str(lines_a - lines_b))]
                 ELSE res_b,
                 TRUE, s0, incremented(incremented(s0, "removed"), "added"),
                 depth, <<>>, <<>>)

compare_nodes(node_a, node_b, s0, depth) ==
    IF node_a = None /\ node_b = None
    THEN Returned(node_a, node_b, None, None, FALSE, s0, s0, depth, <<>>, <<>>)
    ELSE IF node_b = None
    THEN \* Node Removed
         removed_result(node_a, mark_tree(deepcopy(node_a), "color:#cc0000;"),
                        s0, depth)
    ELSE IF node_a = None
    THEN \* Node Added
         added_result(node_b, mark_tree(deepcopy(node_b), "color:#00aa00;"),
                      s0, depth)
    ELSE IF node_a.tag # node_b.tag
    THEN \* Tag Mismatch
         mismatch_result(node_a, node_b,
                         mark_tree(deepcopy(node_a), "color:#cc0000;"),
                         mark_tree(deepcopy(node_b), "color:#00aa00;"), s0, depth)
    ELSE \* Compare Attributes & Text, then the children
         same_tag_result(node_a, node_b, is_modified(node_a, node_b),
             opcode_loop(get_opcodes(child_keys(node_a), child_keys(node_b)), 1,
                 [children_a |-> node_a.children, children_b |-> node_b.children,
                  depth |-> depth],
                 [out_a |-> <<>>, out_b |-> <<>>, has_child_changes |-> FALSE,
                  stats |-> s0, calls |-> <<>>, slots |-> <<>>]),
             s0, depth)

\* ------------------------------------------------------------------------
\* serialize: the line blocks (one per <div>) of an output element
\* ------------------------------------------------------------------------
Line(kind, tag, style, level) ==
    [kind |-> kind, tag |-> tag, style |-> style, level |-> level]

\* n times <div class="spacer">
SpacerLines(n) == [i \in 1..n |-> Line("spacer", "", "", 0)]

\* the concatenation of parts[lo], ..., parts[hi]
RECURSIVE Concat(_, _, _)
Concat(parts, lo, hi) ==
    IF lo > hi THEN <<>>
    ELSE IF lo = hi THEN parts[lo]
    ELSE LET mid == (lo + hi) \div 2
         IN  Concat(parts, lo, mid) \o Concat(parts, mid + 1, hi)

RECURSIVE serialize(_, _)
serialize(elem, level) ==
    IF elem = None THEN <<>>
    ELSE IF elem.tag = "__spacer__" THEN SpacerLines(elem.lines)
    ELSE LET tag_style   == IF elem.diff_style # "" THEN elem.diff_style
                            ELSE "color: #6b7280;"
             spacer_html == SpacerLines(elem.append_spacer)
         IN  IF Len(elem.children) = 0
             THEN <<Line("leaf", elem.tag, tag_style, level)>> \o spacer_html
             ELSE <<Line("open", elem.tag, tag_style, level)>>
                  \o (IF TextShown(elem.text)
                      THEN <<Line("text", elem.tag,
                                  IF elem.text.style # "" THEN elem.text.style
                                  ELSE "color: #374151;", level + 1)>>
                      ELSE <<>>)
                  \o Concat([i \in 1..Len(elem.children) |->
                                serialize(elem.children[i], level + 1)],
                            1, Len(elem.children))
                  \o <<Line("close", elem.tag, tag_style, level)>>
                  \o spacer_html

\* <div class="text-gray-400 italic p-4">No Changes</div>
NoChanges == <<Line("nochanges", "", "", 0)>>

\* ------------------------------------------------------------------------
\* parse_clean: None for a blank or malformed string, else the sorted root;
\* keys are the entries that sort_and_key adds to node_keys
\* ------------------------------------------------------------------------
parse_clean(xml_str) ==
    IF xml_str.kind = "blank" THEN [root |-> None, keys |-> <<>>]
    ELSE IF xml_str.kind = "malformed" THEN [root |-> None, keys |-> <<>>]
    ELSE LET r == sort_and_key(xml_str.root)
         IN  [root |-> r.node, keys |-> r.keys]

ZeroStats == [added |-> 0, removed |-> 0, modified |-> 0]

\* ------------------------------------------------------------------------
\* The documents given to the filter
\* ------------------------------------------------------------------------
Xml(root) == [kind |-> "xml", root |-> root]

Blank == [kind |-> "blank", root |-> None]

Malformed == [kind |-> "malformed", root |-> None]

\* the sequences over S of length 0..n
RECURSIVE SeqsUpTo(_, _)
SeqsUpTo(S, n) ==
    IF n = 0 THEN {<<>>}
    ELSE LET shorter == SeqsUpTo(S, n - 1)
         IN  shorter \cup {Append(q, x) : q \in {t \in shorter : Len(t) = n - 1}, x \in S}

\* leaves under a generated root
GenLeaves == {Leaf("a", 2), Leaf("a", 3), Leaf("name", 2)}

\* <config> with up to MaxKids of these leaves, in any order
GenDocs == {Node("config", <<>>, 0, kids) : kids \in SeqsUpTo(GenLeaves, MaxKids)}

\* documents of the scenarios: nesting, context tags, attributes, blank
\* text, differing root tags, subtrees of several nodes
ScenarioDocs ==
    { Node("config", <<>>, 0, <<Node("a", <<>>, 0, <<Leaf("b", 2), Leaf("c", 3)>>)>>),
      Node("config", <<>>, 0, <<Node("a", <<>>, 0, <<Leaf("b", 2), Leaf("c", 4)>>)>>),
      Node("config", <<>>, 0, <<Node("a", <<>>, 0, <<Leaf("c", 3), Leaf("name", 2)>>)>>),
      Node("config", <<>>, 0, <<Node("a", <<>>, 0, <<Leaf("c", 4), Leaf("name", 2)>>)>>),
      Node("config", <<>>, 0, <<Node("a", <<>>, 0, <<Leaf("name", 2), Leaf("c", 4)>>)>>),
      Node("config", <<>>, 0, <<Leaf("a", 2), Leaf("b", 3)>>),
      Node("config", <<>>, 0, <<Leaf("a", 2), Node("b", <<>>, 3, <<Leaf("c", 2), Leaf("c", 3)>>)>>),
      Node("config", <<>>, 0, <<Node("b", <<>>, 3, <<Leaf("c", 3), Leaf("c", 2)>>), Leaf("a", 2)>>),
      Node("config", <<>>, 0, <<Node("a", <<>>, 0, <<Leaf("name", 2)>>), Leaf("b", 2)>>),
      Node("config", <<>>, 0, <<Node("a", <<>>, 0, <<Leaf("name", 2)>>), Leaf("b", 3)>>),
      Node("config", <<>>, 0, <<Node("a", <<>>, 0, <<Leaf("name", 3)>>), Leaf("b", 2)>>),
      Node("config", <<>>, 0, <<Leaf("x", 2)>>),
      Node("config", <<>>, 0, <<Leaf("y", 2)>>),
      Node("config", <<>>, 1, <<Leaf("a", 2)>>),
      Node("config", <<>>, 2, <<Leaf("a", 2)>>),
      Node("config", <<<<"k", 2>>>>, 0, <<Leaf("a", 2)>>),
      Node("config", <<<<"j", 2>>, <<"k", 2>>>>, 0, <<>>),
      Node("config", <<<<"k", 2>>, <<"j", 2>>>>, 0, <<>>),
      Node("config", <<>>, 0, <<Node("a", <<<<"k", 2>>>>, 1, <<>>), Leaf("a", 0)>>),
      Leaf("x", 2),
      Node("y", <<>>, 2, <<Leaf("a", 2), Leaf("name", 3)>>),
      Node("config", <<>>, 0, <<Node("__spacer__", <<>>, 0, <<Leaf("a", 2)>>)>>),
      Node("config", <<>>, 0, <<Node("a", <<<<"__append_spacer__", 4>>>>, 2, <<>>)>>),
      Node("__spacer__", <<<<"lines", 2>>>>, 0, <<>>),
      Node("config", <<>>, 0, <<Node("a", <<>>, 0, <<Leaf("name", 2)>>), Leaf("name", 2)>>),
      Node("config", <<>>, 0, <<Node("a", <<>>, 0, <<Leaf("name", 3)>>), Leaf("name", 2)>>) }

\* wide documents: children enough for the matcher's autojunk rule
\* (AutojunkMin), all different but for four equal <c> elements
WideLeaves == [i \in 1..(AutojunkMin - 5) |-> Leaf("a", i + 1)]

FourC == <<Leaf("c", 2), Leaf("c", 2), Leaf("c", 2), Leaf("c", 2)>>

WideDocs ==
    { Node("config", <<>>, 0, WideLeaves \o FourC),
      Node("config", <<>>, 0, WideLeaves \o <<Leaf("b", 2)>> \o FourC),
      Node("config", <<>>, 0, WideLeaves \o <<Leaf("x", 2)>> \o FourC),
      Node("config", <<>>, 0, FourC \o WideLeaves) }

\* the same with four equal <name> elements, a context tag
FourName == <<Leaf("name", 2), Leaf("name", 2), Leaf("name", 2), Leaf("name", 2)>>

WideContextPairs ==
    { <<Xml(Node("config", <<>>, 0, WideLeaves \o FourName)),
        Xml(Node("config", <<>>, 0, WideLeaves \o <<Leaf("b", 2)>> \o FourName))>>,
      <<Xml(Node("config", <<>>, 0, WideLeaves \o <<Leaf("b", 2)>> \o FourName)),
        Xml(Node("config", <<>>, 0, WideLeaves \o FourName))>> }

SmallInputs == {Xml(d) : d \in GenDocs \cup ScenarioDocs} \cup {Blank, Malformed}

InputPairs ==
    (SmallInputs \X SmallInputs)
    \cup {<<Xml(d), Xml(e)>> : d \in WideDocs, e \in WideDocs}
    \cup WideContextPairs

\* ------------------------------------------------------------------------
\* xml_struct_diff(before_xml, after_xml), statement by statement
\* ------------------------------------------------------------------------
NoReturn ==
    [left |-> <<>>, right |-> <<>>,
     metadata |-> [changed |-> FALSE, added_count |-> 0, removed_count |-> 0,
                   changed_count |-> 0]]

Init ==
    /\ \E p \in InputPairs : before_xml = p[1] /\ after_xml = p[2]
    /\ pc = "parse_before"
    /\ root_before = None
    /\ root_after = None
    /\ node_keys = <<>>
    /\ stats = ZeroStats
    /\ result_left = None
    /\ result_right = None
    /\ any_change = FALSE
    /\ calls = <<>>
    /\ left_out = <<>>
    /\ right_out = <<>>
    /\ ret = NoReturn

\* root_before = parse_clean(before_xml)
ParseBefore ==
    /\ pc = "parse_before"
    /\ LET r == parse_clean(before_xml)
       IN  /\ root_before' = r.root
           /\ node_keys' = r.keys @@ node_keys
    /\ pc' = "parse_after"
    /\ UNCHANGED <<before_xml, after_xml, root_after, stats, result_left,
                   result_right, any_change, calls, left_out, right_out, ret>>

\* root_after = parse_clean(after_xml)
ParseAfter ==
    /\ pc = "parse_after"
    /\ LET r == parse_clean(after_xml)
       IN  /\ root_after' = r.root
           /\ node_keys' = r.keys @@ node_keys
    /\ pc' = "init_stats"
    /\ UNCHANGED <<before_xml, after_xml, root_before, stats, result_left,
                   result_right, any_change, calls, left_out, right_out, ret>>

\* self.stats = {"added": 0, "removed": 0, "modified": 0}
InitStats ==
    /\ pc = "init_stats"
    /\ stats' = ZeroStats
    /\ pc' = "compare"
    /\ UNCHANGED <<before_xml, after_xml, root_before, root_after, node_keys,
                   result_left, result_right, any_change, calls, left_out,
                   right_out, ret>>

\* result_left, result_right, any_change = compare_nodes(root_before, root_after)
Compare ==
    /\ pc = "compare"
    /\ LET r == compare_nodes(root_before, root_after, stats, 0)
       IN  /\ result_left' = r.res_a
           /\ result_right' = r.res_b
           /\ any_change' = r.changed
           /\ stats' = r.stats
           /\ calls' = r.calls
    /\ pc' = "serialize_left"
    /\ UNCHANGED <<before_xml, after_xml, root_before, root_after, node_keys,
                   left_out, right_out, ret>>

\* left_out = serialize(result_left)
SerializeLeft ==
    /\ pc = "serialize_left"
    /\ left_out' = serialize(result_left, 0)
    /\ pc' = "serialize_right"
    /\ UNCHANGED <<before_xml, after_xml, root_before, root_after, node_keys,
                   stats, result_left, result_right, any_change, calls,
                   right_out, ret>>

\* right_out = serialize(result_right)
SerializeRight ==
    /\ pc = "serialize_right"
    /\ right_out' = serialize(result_right, 0)
    /\ pc' = "return"
    /\ UNCHANGED <<before_xml, after_xml, root_before, root_after, node_keys,
                   stats, result_left, result_right, any_change, calls,
                   left_out, ret>>

\* return {"left": ..., "right": ..., "metadata": {...}}
Return ==
    /\ pc = "return"
    /\ ret' = [left  |-> IF left_out # <<>> THEN left_out ELSE NoChanges,
               right |-> IF right_out # <<>> THEN right_out ELSE NoChanges,
               metadata |-> [changed |-> any_change,
                             added_count |-> stats.added,
                             removed_count |-> stats.removed,
                             changed_count |-> stats.modified]]
    /\ pc' = "done"
    /\ UNCHANGED <<before_xml, after_xml, root_before, root_after, node_keys,
                   stats, result_left, result_right, any_change, calls,
                   left_out, right_out>>

Next ==
    \/ ParseBefore
    \/ ParseAfter
    \/ InitStats
    \/ Compare
    \/ SerializeLeft
    \/ SerializeRight
    \/ Return

Spec == Init /\ [][Next]_vars

\* ------------------------------------------------------------------------
\* Properties
\* ------------------------------------------------------------------------
SpacerCount(lines) == Cardinality({i \in 1..Len(lines) : lines[i].kind = "spacer"})

\* C1 (line balance): when the diff reports a change the left and the right
\* output have the same number of line blocks, and so have the two elements
\* returned by every call of compare_nodes (matched pair, removed or inserted
\* element with its spacer, replace pair of different tags, root tag mismatch).
C1_LineBalance ==
    pc = "done" =>
        /\ ret.metadata.changed => Len(ret.left) = Len(ret.right)
        /\ \A i \in 1..Len(calls) :
               Len(serialize(calls[i].res_a, 0)) = Len(serialize(calls[i].res_b, 0))

UnchangedReturn ==
    [left |-> NoChanges, right |-> NoChanges,
     metadata |-> [changed |-> FALSE, added_count |-> 0, removed_count |-> 0,
                   changed_count |-> 0]]

\* C2 (idempotence): the diff of a well-formed document with itself returns
\* changed = false, zero counters and the No Changes marker on both sides.
C2_Idempotence ==
    (pc = "done" /\ before_xml.kind = "xml" /\ after_xml = before_xml)
        => ret = UnchangedReturn

\* a document with nested children was compared with itself
C2_Witness ==
    /\ pc = "done"
    /\ before_xml.kind = "xml"
    /\ after_xml = before_xml
    /\ \E i \in 1..Len(before_xml.root.children) :
           Len(before_xml.root.children[i].children) >= 2

\* the counters of a second run of the diff with the two documents exchanged
SwappedStats == compare_nodes(root_after, root_before, ZeroStats, 0).stats

\* C3 (symmetry): the added count of diff(A, B) is the removed count of
\* diff(B, A), the removed count of diff(A, B) is the added count of diff(B, A),
\* and the modified counts of both are equal, duplicate keys and matcher ties
\* included.
C3_Symmetry ==
    pc = "done" =>
        /\ stats.added = SwappedStats.removed
        /\ stats.removed = SwappedStats.added
        /\ stats.modified = SwappedStats.modified

\* B is A with the children of any number of nodes permuted: same tag,
\* attributes and text, and the children of B are those of A, each up to such
\* a permutation, as many times as in A.
RECURSIVE Permuted(_, _)
Permuted(A, B) ==
    /\ A.tag = B.tag
    /\ A.attrib = B.attrib
    /\ A.text = B.text
    /\ Len(A.children) = Len(B.children)
    /\ \A i \in 1..Len(A.children) :
           Cardinality({j \in 1..Len(A.children) :
                           Permuted(A.children[i], A.children[j])})
           = Cardinality({j \in 1..Len(B.children) :
                           Permuted(A.children[i], B.children[j])})

\* C4 (move-insensitivity): when the after document is the before document with
\* children permuted at any number of nodes, changed is false and the three
\* counters are zero.
C4_MoveInsensitive ==
    (/\ pc = "done"
     /\ before_xml.kind = "xml"
     /\ after_xml.kind = "xml"
     /\ Permuted(before_xml.root, after_xml.root))
        => /\ ~ret.metadata.changed
           /\ ~any_change
           /\ stats = ZeroStats

\* children were permuted at the root and inside one of its children
C4_Witness ==
    /\ pc = "done"
    /\ before_xml.kind = "xml"
    /\ after_xml.kind = "xml"
    /\ Permuted(before_xml.root, after_xml.root)
    /\ Len(before_xml.root.children) >= 2
    /\ before_xml.root.children[1] # after_xml.root.children[1]
    /\ \E i \in 1..Len(before_xml.root.children) :
           /\ Len(before_xml.root.children[i].children) >= 2
           /\ \A j \in 1..Len(after_xml.root.children) :
                  after_xml.root.children[j] # before_xml.root.children[i]

\* config > a > {sibling = 2, c = text}, the sibling first or last
C5Doc(sibling, text, sibling_first) ==
    Xml(Node("config", <<>>, 0,
             <<Node("a", <<>>, 0,
                    IF sibling_first THEN <<Leaf(sibling, 2), Leaf("c", text)>>
                    ELSE <<Leaf("c", text), Leaf(sibling, 2)>>)>>))

Unstyled == "color: #6b7280;"

\* the lines of config > a > c with c styled as modified, then the given lines
\* of retained siblings
C5Lines(retained) ==
    <<Line("open", "config", Unstyled, 0), Line("open", "a", Unstyled, 1),
      Line("leaf", "c", "color:#ff8800;", 2)>>
    \o retained
    \o <<Line("close", "a", Unstyled, 1), Line("close", "config", Unstyled, 0)>>

\* C5 (pruning scenario): for before = config > a > {b = 1, c = 2} and
\* after = config > a > {b = 1, c = 3} each side holds only config, a and the
\* modified c, and modified = 1, added = 0, removed = 0; with a context tag
\* (name) in the place of b, that sibling is present on each side, unstyled.
C5_PruningScenario ==
    /\ (pc = "done" /\ before_xml = C5Doc("b", 3, TRUE)
                    /\ after_xml = C5Doc("b", 4, TRUE))
           => /\ ret.left = C5Lines(<<>>)
              /\ ret.right = C5Lines(<<>>)
              /\ stats = [added |-> 0, removed |-> 0, modified |-> 1]
              /\ ret.metadata = [changed |-> TRUE, added_count |-> 0,
                                 removed_count |-> 0, changed_count |-> 1]
    /\ (pc = "done" /\ before_xml = C5Doc("name", 3, FALSE)
                    /\ after_xml \in {C5Doc("name", 4, FALSE), C5Doc("name", 4, TRUE)})
           => /\ ret.left = C5Lines(<<Line("leaf", "name", Unstyled, 2)>>)
              /\ ret.right = C5Lines(<<Line("leaf", "name", Unstyled, 2)>>)
              /\ stats = [added |-> 0, removed |-> 0, modified |-> 1]

\* the scenario with the plain sibling b was diffed
C5_Witness ==
    /\ pc = "done"
    /\ before_xml = C5Doc("b", 3, TRUE)
    /\ after_xml = C5Doc("b", 4, TRUE)
    /\ ret.metadata.changed_count = 1

\* s without its k-th element
RemoveAt(s, k) == [i \in 1..(Len(s) - 1) |-> IF i < k THEN s[i] ELSE s[i + 1]]

\* B is A with one more child subtree under the root, all else unchanged
InsertedOnly(A, B) ==
    /\ A.tag = B.tag
    /\ A.attrib = B.attrib
    /\ A.text = B.text
    /\ Len(B.children) = Len(A.children) + 1
    /\ \E k \in 1..Len(B.children) : RemoveAt(B.children, k) = A.children

\* the child subtree of B that A lacks
InsertedSubtree(A, B) ==
    B.children[CHOOSE k \in 1..Len(B.children) : RemoveAt(B.children, k) = A.children]

\* the number of lines that the rendering of an input subtree takes
Height(node) == Len(serialize(deepcopy(node), 0))

\* the line counts of the spacers among the children of an output element
SpacerHeights(elem) ==
    {<<i, elem.children[i].lines>> : i \in {j \in 1..Len(elem.children) :
                                              elem.children[j].tag = "__spacer__"}}

\* the given side holds, under the root, one spacer of height h and the other
\* side holds no spacer
OneSpacer(with_spacer, without_spacer, lines_with, lines_without, h) ==
    /\ \E i \in 1..Len(with_spacer.children) : SpacerHeights(with_spacer) = {<<i, h>>}
    /\ SpacerHeights(without_spacer) = {}
    /\ SpacerCount(lines_with) = h
    /\ SpacerCount(lines_without) = 0

\* C6 (one-sided slot): when one child subtree exists only in the after
\* document and all else is unchanged, added = 1, removed = 0, modified = 0,
\* whatever the size of the subtree, and the left output holds one spacer of
\* the rendered height of that subtree; when one child subtree exists only in
\* the before document, removed = 1, added = 0, modified = 0 and the right
\* output holds the spacer.
C6_OneSidedSlot ==
    (pc = "done" /\ before_xml.kind = "xml" /\ after_xml.kind = "xml") =>
        /\ InsertedOnly(before_xml.root, after_xml.root) =>
               /\ stats = [added |-> 1, removed |-> 0, modified |-> 0]
               /\ OneSpacer(result_left, result_right, ret.left, ret.right,
                            Height(InsertedSubtree(before_xml.root, after_xml.root)))
        /\ InsertedOnly(after_xml.root, before_xml.root) =>
               /\ stats = [added |-> 0, removed |-> 1, modified |-> 0]
               /\ OneSpacer(result_right, result_left, ret.right, ret.left,
                            Height(InsertedSubtree(after_xml.root, before_xml.root)))

\* B is A with the tag of one child of the root changed, all else unchanged
TagSwapped(A, B) ==
    /\ A.tag = B.tag
    /\ A.attrib = B.attrib
    /\ A.text = B.text
    /\ Len(B.children) = Len(A.children)
    /\ \E k \in 1..Len(A.children) :
           /\ A.children[k].tag # B.children[k].tag
           /\ [A.children[k] EXCEPT !.tag = B.children[k].tag] = B.children[k]
           /\ \A i \in 1..Len(A.children) : i # k => A.children[i] = B.children[i]

\* C7 (tag mismatch): when the child at one position has another tag in the
\* after document than in the before document, with the same text, added = 1,
\* removed = 1 and modified = 0; and no call of compare_nodes on two nodes of
\* different tags counts a modification.
C7_TagMismatch ==
    pc = "done" =>
        /\ (/\ before_xml.kind = "xml"
            /\ after_xml.kind = "xml"
            /\ TagSwapped(before_xml.root, after_xml.root))
               => stats = [added |-> 1, removed |-> 1, modified |-> 0]
        /\ \A i \in 1..Len(calls) :
               (/\ calls[i].a # None
                /\ calls[i].b # None
                /\ calls[i].a.tag # calls[i].b.tag)
                   => calls[i].s1.modified = calls[i].s0.modified

Total(s) == s.added + s.removed + s.modified

\* no counter of s is above its value in t
NotAbove(s, t) ==
    /\ s.added <= t.added
    /\ s.removed <= t.removed
    /\ s.modified <= t.modified

\* C8 (changed flag and counters): the changed flag is true exactly when
\* added + removed + modified > 0, for absent inputs too; no counter is
\* negative, and no call of compare_nodes leaves a counter below the value it
\* found, nor starts below the value an earlier call found.
C8_ChangedIffCounted ==
    /\ any_change <=> Total(stats) > 0
    /\ NotAbove(ZeroStats, stats)
    /\ pc = "done" =>
           /\ ret.metadata.changed <=>
                  (ret.metadata.added_count + ret.metadata.removed_count
                   + ret.metadata.changed_count > 0)
           /\ ret.metadata.added_count >= 0
           /\ ret.metadata.removed_count >= 0
           /\ ret.metadata.changed_count >= 0
    /\ \A i \in 1..Len(calls) :
           /\ NotAbove(ZeroStats, calls[i].s0)
           /\ NotAbove(calls[i].s0, calls[i].s1)
           /\ NotAbove(calls[i].s1, stats)
           /\ i > 1 => NotAbove(calls[i - 1].s0, calls[i].s0)

\* a diff whose before input is absent was returned as changed
C8_Witness ==
    /\ pc = "done"
    /\ before_xml.kind # "xml"
    /\ after_xml.kind = "xml"
    /\ ret.metadata.changed
    /\ ret.metadata.added_count = 1

\* C9 (No Changes marker): a side is the No Changes marker exactly when changed
\* is false, and then both sides are; when changed is true no side is empty or
\* holds the marker, and a side without a real node holds spacer lines.
C9_Marker ==
    pc = "done" =>
        /\ (ret.left = NoChanges) <=> ~ret.metadata.changed
        /\ (ret.right = NoChanges) <=> ~ret.metadata.changed
        /\ ret.metadata.changed =>
               /\ ret.left # <<>>
               /\ ret.right # <<>>
               /\ \A i \in 1..Len(ret.left) : ret.left[i].kind # "nochanges"
               /\ \A i \in 1..Len(ret.right) : ret.right[i].kind # "nochanges"
               /\ root_before = None => SpacerCount(ret.left) = Len(ret.left)
               /\ root_after = None => SpacerCount(ret.right) = Len(ret.right)

\* the calls that the i-th call made on its child slots: the later calls one
\* level deeper, up to the next call that is not below the i-th
ChildCalls(i) ==
    {j \in (i + 1)..Len(calls) :
        /\ calls[j].depth = calls[i].depth + 1
        /\ \A k \in (i + 1)..j : calls[k].depth > calls[i].depth}

\* the i-th call is on a same-tag pair with equal attributes and equal trimmed
\* text, and no child slot that it compared reports a change (the context
\* children of equal blocks are copied while scanning, never compared)
NothingChanged(i) ==
    /\ calls[i].a # None
    /\ calls[i].b # None
    /\ calls[i].a.tag = calls[i].b.tag
    /\ ~is_modified(calls[i].a, calls[i].b)
    /\ \A j \in ChildCalls(i) : ~calls[j].changed

\* an output element without any change style or spacer, at any depth
RECURSIVE Unmarked(_)
Unmarked(elem) ==
    /\ elem.tag # "__spacer__"
    /\ elem.diff_style = ""
    /\ elem.text.style = ""
    /\ elem.append_spacer = 0
    /\ \A k \in 1..Len(elem.children) : Unmarked(elem.children[k])

IsContextCopy(elem) == elem.tag \in CONTEXT_TAGS /\ Unmarked(elem)

IsNotContextCopy(elem) == ~IsContextCopy(elem)

\* what the child slots of the i-th call that report a change returned, in
\* the order of the calls
ChangedChildResults(i) ==
    LET js == AscendingSeq({j \in ChildCalls(i) : calls[j].changed})
    IN  [a |-> [k \in 1..Len(js) |-> calls[js[k]].res_a],
         b |-> [k \in 1..Len(js) |-> calls[js[k]].res_b]]

RECURSIVE OwnObjects(_)
OwnObjects(elem) ==
    \/ elem = None
    \/ /\ elem.made_by \in {"deepcopy", "Element"}
       /\ \A k \in 1..Len(elem.children) : OwnObjects(elem.children[k])

\* elem carries something that compare_nodes writes: a style marker, a
\* wrapped text or an appended spacer
RECURSIVE Written(_)
Written(elem) ==
    /\ elem # None
    /\ \/ elem.diff_style # ""
       \/ elem.text.style # ""
       \/ elem.append_spacer > 0
       \/ \E k \in 1..Len(elem.children) : Written(elem.children[k])

\* C11: compare_nodes never mutates its input trees. After the comparison
\* both roots are the trees that parse_clean returned (same tags, attributes,
\* texts and child order), and every object in the results of every call,
\* which are the objects that style markers, wrapped texts and
\* __append_spacer__ were written to, is a copy made by deepcopy or a node
\* built by ET.Element, never an object of an input tree.
C11_InputsNotMutated ==
    (pc \in {"serialize_left", "serialize_right", "return", "done"}) =>
        /\ root_before = parse_clean(before_xml).root
        /\ root_after = parse_clean(after_xml).root
        /\ \A i \in 1..Len(calls) :
               /\ OwnObjects(calls[i].res_a)
               /\ OwnObjects(calls[i].res_b)

\* a comparison that wrote a style marker to a copy of a removed or added
\* subtree and kept an unmarked copy of a context child
C11_Witness ==
    /\ pc = "done"
    /\ \E i \in 1..Len(calls) :
           /\ calls[i].a # None
           /\ calls[i].b = None
           /\ Written(calls[i].res_a)
           /\ calls[i].res_a.made_by = "deepcopy"
    /\ \E i \in 1..Len(calls) :
           /\ calls[i].res_a # None
           /\ calls[i].res_a.made_by = "Element"
           /\ \E k \in 1..Len(calls[i].res_a.children) :
                  /\ calls[i].res_a.children[k].tag \in CONTEXT_TAGS
                  /\ ~Written(calls[i].res_a.children[k])

\* ------------------------------------------------------------------------
\* The merge-join variant (xml_struct_diff-6.py): identity keys
\*
\* get_identity_key returns a tuple of strings. A part of it is
\*   [kind |-> "tag", name]           the tag
\*   [kind |-> "attrib", items]       str(sorted(node.attrib.items()))
\*   [kind |-> "field", name, val]    name + ":" + val, for an identifying
\*                                    child or for "text"
\* and PartCmp is Python's order on the strings they stand for.
\* ------------------------------------------------------------------------
ID_CHILDREN == <<"id", "name", "key", "neighbor-address", "prefix", "vlan-id">>

\* the order of the reprs of two attribute values: ' ' before '' before the
\* numerals
ValueReprRank(v) == IF v = 1 THEN 0 ELSE IF v = 0 THEN 1 ELSE v

\* the order of "[('j', '000'), ...]" strings: item by item, and a list that
\* goes on ("," after the item) sorts before one that ends there ("]")
RECURSIVE AttribReprCmp(_, _, _)
AttribReprCmp(s, t, i) ==
    IF i > Len(s) /\ i > Len(t) THEN 0
    ELSE IF i > Len(s) THEN 1
    ELSE IF i > Len(t) THEN -1
    ELSE IF s[i][1] # t[i][1]
    THEN (IF NameRank(s[i][1]) < NameRank(t[i][1]) THEN -1 ELSE 1)
    ELSE IF s[i][2] # t[i][2]
    THEN (IF ValueReprRank(s[i][2]) < ValueReprRank(t[i][2]) THEN -1 ELSE 1)
    ELSE AttribReprCmp(s, t, i + 1)

\* -1, 0, 1 for two strings of a key
PartCmp(p, q) ==
    IF p.kind = "tag" /\ q.kind = "tag"
    THEN (IF p.name = q.name THEN 0
          ELSE IF NameRank(p.name) < NameRank(q.name) THEN -1 ELSE 1)
    ELSE IF p.kind = "attrib" /\ q.kind = "attrib"
    THEN AttribReprCmp(p.items, q.items, 1)
    ELSE IF p.kind = "attrib" THEN -1      \* "[" sorts before a letter
    ELSE IF q.kind = "attrib" THEN 1
    ELSE IF p.name # q.name
    THEN (IF NameRank(p.name) < NameRank(q.name) THEN -1 ELSE 1)
    ELSE IF p.val # q.val THEN (IF p.val < q.val THEN -1 ELSE 1)
    ELSE 0

\* tuples compare lexicographically, a proper prefix first
RECURSIVE IdentityCmp(_, _, _)
IdentityCmp(k1, k2, i) ==
    IF i > Len(k1) /\ i > Len(k2) THEN 0
    ELSE IF i > Len(k1) THEN -1
    ELSE IF i > Len(k2) THEN 1
    ELSE LET c == PartCmp(k1[i], k2[i])
         IN  IF c # 0 THEN c ELSE IdentityCmp(k1, k2, i + 1)

\* node.find(k): the first child of that tag, None when there is none
find(node, k) ==
    IF \E i \in 1..Len(node.children) : node.children[i].tag = k
    THEN node.children[CHOOSE i \in 1..Len(node.children) :
                          /\ node.children[i].tag = k
                          /\ \A j \in 1..(i - 1) : node.children[j].tag # k]
    ELSE None

\* the loop over the identifying children from the n-th on: the part of the
\* first one that is present with a text, <<>> when there is none
RECURSIVE id_child_part(_, _)
id_child_part(node, n) ==
    IF n > Len(ID_CHILDREN) THEN <<>>
    ELSE LET child == find(node, ID_CHILDREN[n])
         IN  IF child # None /\ child.text # 0
             THEN <<[kind |-> "field", name |-> ID_CHILDREN[n],
                     val |-> strip(child.text)]>>
             ELSE id_child_part(node, n + 1)

\* the key without the tag
get_identity_key_tagless(node) ==
    LET found == id_child_part(node, 1)
    IN  (IF node.attrib # <<>>
         THEN <<[kind |-> "attrib", items |-> sorted_items(node.attrib)]>>
         ELSE <<>>)
        \o found
        \o (IF found = <<>> /\ strip(node.text) # 0
            THEN <<[kind |-> "field", name |-> "text", val |-> strip(node.text)]>>
            ELSE <<>>)

get_identity_key(node) ==
    LET found == id_child_part(node, 1)
    IN  <<[kind |-> "tag", name |-> node.tag]>>
        \o (IF node.attrib # <<>>
            THEN <<[kind |-> "attrib", items |-> sorted_items(node.attrib)]>>
            ELSE <<>>)
        \o found
        \o (IF found = <<>> /\ strip(node.text) # 0
            THEN <<[kind |-> "field", name |-> "text", val |-> strip(node.text)]>>
            ELSE <<>>)

\* sorted(node, key=get_identity_key): stable
sorted_by_identity(children) ==
    LET n  == Len(children)
        ks == Tuple([i \in 1..n |-> get_identity_key(children[i])], 1, n)
        at == Tuple([i \in 1..n |->
                 1 + Cardinality({j \in 1..n :
                        LET c == IdentityCmp(ks[j], ks[i], 1)
                        IN  c < 0 \/ (c = 0 /\ j < i)})], 1, n)
    IN  Tuple([p \in 1..n |-> children[CHOOSE i \in 1..n : at[i] = p]], 1, n)

\* sort_tree: the children sorted by the key they have at that moment, then
\* each child sorted in turn
RECURSIVE sort_tree(_)
sort_tree(node) ==
    LET kids == sorted_by_identity(node.children)
    IN  [node EXCEPT !.children = [i \in 1..Len(kids) |-> sort_tree(kids[i])]]

\* ------------------------------------------------------------------------
\* The merge-join variant: count_lines and compare_nodes.
\* escape_html, mark_tree and serialize are the code of the sequence-matching
\* variant. out_a.append(None) raises TypeError (xml.etree of Python 3), and
\* the exception leaves compare_nodes and xml_struct_diff.
\* ------------------------------------------------------------------------
RECURSIVE count_lines_mj(_)
count_lines_mj(elem) ==
    IF elem = None THEN 0
    ELSE IF elem.tag = "__spacer__" THEN attr_int(elem.attrib, "lines", 0)
    ELSE IF Len(elem.children) = 0 THEN 1
    ELSE 2 + (IF TextShown(elem.text) THEN 1 ELSE 0)
           + SumSeq([i \in 1..Len(elem.children) |->
                        count_lines_mj(elem.children[i])],
                    1, Len(elem.children))
           + elem.append_spacer

\* what a call of compare_nodes leaves: its results, self.stats, whether an
\* exception left it, and the log of the calls made (this one first); slots
\* lists the steps of its merge-join loop
ReturnedMJ(node_a, node_b, res_a, res_b, changed, s0, s1, depth, inner, slots, raised) ==
    [res_a |-> res_a, res_b |-> res_b, changed |-> changed, stats |-> s1,
     raised |-> raised,
     calls |-> <<[a |-> node_a, b |-> node_b, res_a |-> res_a, res_b |-> res_b,
                  changed |-> changed, s0 |-> s0, s1 |-> s1, depth |-> depth,
                  slots |-> slots, raised |-> raised]>>
               \o inner]

\* one step of the loop: the cursors before it, the children it consumed
\* (None for a side it left alone) and the branch taken
Slot(branch, idx_a, idx_b, c_a, c_b, k_a, k_b) ==
    [branch |-> branch, idx_a |-> idx_a, idx_b |-> idx_b, a |-> c_a, b |-> c_b,
     k_a |-> k_a, k_b |-> k_b]

\* out_a.append(res_child_a); out_b.append(res_child_b)
appended_mj(acc, r, has, slot) ==
    [out_a |-> Append(acc.out_a, r.res_a), out_b |-> Append(acc.out_b, r.res_b),
     has_child_changes |-> has, stats |-> r.stats,
     calls |-> acc.calls \o r.calls, slots |-> Append(acc.slots, slot),
     raised |-> FALSE]

\* an exception ends the loop
raised_mj(acc, r, slot) ==
    [out_a |-> acc.out_a, out_b |-> acc.out_b,
     has_child_changes |-> acc.has_child_changes, stats |-> r.stats,
     calls |-> acc.calls \o r.calls, slots |-> Append(acc.slots, slot),
     raised |-> TRUE]

\* Match: if changed: has_child_changes = True; then both results are
\* appended, also when they are None
matched_mj(acc, r, slot) ==
    IF r.raised THEN raised_mj(acc, r, slot)
    ELSE IF r.res_a = None \/ r.res_b = None THEN raised_mj(acc, r, slot)
    ELSE appended_mj(acc, r, acc.has_child_changes \/ r.changed, slot)

\* Removed, Added
one_sided_mj(acc, r, slot) == appended_mj(acc, r, TRUE, slot)

\* children_a[idx_a] if idx_a < len_a else None
child_at(children, idx) ==
    IF idx < Len(children) THEN children[idx + 1] ELSE None

\* get_identity_key(c) if c is not None else None; the key of no child is
\* written <<>>, which is the key of no element
key_or_none(c) == IF c = None THEN <<>> ELSE get_identity_key(c)

RECURSIVE compare_nodes_mj(_, _, _, _)
RECURSIVE merge_join(_, _, _, _, _, _)

\* the body of the while loop
merge_join_step(children_a, children_b, idx_a, idx_b, depth, acc, c_a, c_b, k_a, k_b) ==
    IF k_a = k_b
    THEN merge_join(children_a, children_b, idx_a + 1, idx_b + 1, depth,
             matched_mj(acc, compare_nodes_mj(c_a, c_b, acc.stats, depth + 1),
                        Slot("match", idx_a, idx_b, c_a, c_b, k_a, k_b)))
    ELSE IF c_b = None \/ (c_a # None /\ IdentityCmp(k_a, k_b, 1) < 0)
    THEN merge_join(children_a, children_b, idx_a + 1, idx_b, depth,
             one_sided_mj(acc, compare_nodes_mj(c_a, None, acc.stats, depth + 1),
                          Slot("removed", idx_a, idx_b, c_a, None, k_a, k_b)))
    ELSE merge_join(children_a, children_b, idx_a, idx_b + 1, depth,
             one_sided_mj(acc, compare_nodes_mj(None, c_b, acc.stats, depth + 1),
                          Slot("added", idx_a, idx_b, None, c_b, k_a, k_b)))

\* while idx_a < len_a or idx_b < len_b
merge_join(children_a, children_b, idx_a, idx_b, depth, acc) ==
    IF acc.raised THEN acc
    ELSE IF ~(idx_a < Len(children_a) \/ idx_b < Len(children_b)) THEN acc
    ELSE merge_join_step(children_a, children_b, idx_a, idx_b, depth, acc,
                         child_at(children_a, idx_a), child_at(children_b, idx_b),
                         key_or_none(child_at(children_a, idx_a)),
                         key_or_none(child_at(children_b, idx_b)))

\* text_changed = text_a != text_b
text_changed(node_a, node_b) == strip(node_a.text) # strip(node_b.text)

\* Final Balancing: the shorter of out_a and out_b gets the missing lines
balanced_mj(node_a, node_b, out_a, out_b, l_lines, r_lines, s0, s1, depth, acc) ==
    ReturnedMJ(node_a, node_b,
               IF l_lines < r_lines
               THEN [out_a EXCEPT !.append_spacer = int(str(r_lines - l_lines))]
               ELSE out_a,
               IF r_lines < l_lines
               THEN [out_b EXCEPT !.append_spacer = int(str(l_lines - r_lines))]
               ELSE out_b,
               TRUE, s0, s1, depth, acc.calls, acc.slots, FALSE)

\* Case 4 after the loop: the text, the pruning, the balancing
same_tag_result_mj(node_a, node_b, changed, acc, s0, depth) ==
    IF acc.raised
    THEN ReturnedMJ(node_a, node_b, None, None, FALSE, s0, acc.stats, depth,
                    acc.calls, acc.slots, TRUE)
    ELSE IF pruned(changed, acc.has_child_changes)
    THEN ReturnedMJ(node_a, node_b, None, None, FALSE, s0, acc.stats, depth,
                    acc.calls, acc.slots, FALSE)
    ELSE balanced_mj(node_a, node_b,
                     out_element(node_a, changed, acc.out_a),
                     out_element(node_b, changed, acc.out_b),
                     count_lines_mj(out_element(node_a, changed, acc.out_a)),
                     count_lines_mj(out_element(node_b, changed, acc.out_b)),
                     s0,
                     IF changed THEN incremented(acc.stats, "modified")
                     ELSE acc.stats,
                     depth, acc)

\* Case 3: Different Tags; max_lines - lines_a is set on res_a when lines_a is
\* below max_lines = max(lines_a, lines_b), and so for res_b
mismatch_result_mj(node_a, node_b, res_a, res_b, lines_a, lines_b, s0, depth) ==
    ReturnedMJ(node_a, node_b,
               IF lines_a < lines_b
               THEN [res_a EXCEPT !.append_spacer = int(str(lines_b - lines_a))]
               ELSE res_a,
               IF lines_b < lines_a
               THEN [res_b EXCEPT !.append_spacer = int(str(lines_a - lines_b))]
               ELSE res_b,
               TRUE, s0, incremented(incremented(s0, "removed"), "added"),
               depth, <<>>, <<>>, FALSE)

compare_nodes_mj(node_a, node_b, s0, depth) ==
    IF node_a = None /\ node_b = None
    THEN ReturnedMJ(node_a, node_b, None, None, FALSE, s0, s0, depth, <<>>,
                    <<>>, FALSE)
    ELSE IF node_b = None
    THEN \* Case 1: Removal
         ReturnedMJ(node_a, None, mark_tree(deepcopy(node_a), "color:#cc0000;"),
                    Spacer(count_lines_mj(mark_tree(deepcopy(node_a),
                                                    "color:#cc0000;"))),
                    TRUE, s0, incremented(s0, "removed"), depth, <<>>, <<>>,
                    FALSE)
    ELSE IF node_a = None
    THEN \* Case 2: Addition
         ReturnedMJ(None, node_b,
                    Spacer(count_lines_mj(mark_tree(deepcopy(node_b),
                                                    "color:#00aa00;"))),
                    mark_tree(deepcopy(node_b), "color:#00aa00;"),
                    TRUE, s0, incremented(s0, "added"), depth, <<>>, <<>>,
                    FALSE)
    ELSE IF node_a.tag # node_b.tag
    THEN mismatch_result_mj(node_a, node_b,
             mark_tree(deepcopy(node_a), "color:#cc0000;"),
             mark_tree(deepcopy(node_b), "color:#00aa00;"),
             count_lines_mj(mark_tree(deepcopy(node_a), "color:#cc0000;")),
             count_lines_mj(mark_tree(deepcopy(node_b), "color:#00aa00;")),
             s0, depth)
    ELSE \* Case 4: Same Tag
         same_tag_result_mj(node_a, node_b, text_changed(node_a, node_b),
             merge_join(node_a.children, node_b.children, 0, 0, depth,
                 [out_a |-> <<>>, out_b |-> <<>>, has_child_changes |-> FALSE,
                  stats |-> s0, calls |-> <<>>, slots |-> <<>>,
                  raised |-> FALSE]),
             s0, depth)

\* parse_clean: None for a blank or malformed string, else the sorted root
parse_clean_mj(xml_str) ==
    IF xml_str.kind = "blank" THEN None
    ELSE IF xml_str.kind = "malformed" THEN None
    ELSE sort_tree(xml_str.root)

\* ------------------------------------------------------------------------
\* The merge-join variant: xml_struct_diff(before_xml, after_xml)
\* ------------------------------------------------------------------------
\* documents for the identity keys: siblings of one key that differ in their
\* children, identifying children, attributes, several <id> children
IdentityDocs ==
    { Node("config", <<>>, 0, <<Node("a", <<>>, 0, <<Leaf("x", 2)>>),
                               Node("a", <<>>, 0, <<Leaf("y", 2)>>)>>),
      Node("config", <<>>, 0, <<Node("a", <<>>, 0, <<Leaf("y", 2)>>),
                               Node("a", <<>>, 0, <<Leaf("x", 2)>>)>>),
      Node("config", <<<<"j", 2>>>>, 0, <<>>),
      Node("config", <<<<"j", 3>>>>, 0, <<>>),
      Node("config", <<<<"j", 2>>>>, 2, <<>>),
      Node("config", <<>>, 0, <<Node("a", <<>>, 0, <<Leaf("id", 2), Leaf("x", 2)>>),
                               Node("a", <<>>, 0, <<Leaf("id", 3), Leaf("x", 2)>>)>>),
      Node("config", <<>>, 0, <<Node("a", <<>>, 0, <<Leaf("id", 3), Leaf("x", 3)>>),
                               Node("a", <<>>, 0, <<Leaf("id", 4), Leaf("x", 2)>>)>>),
      Node("config", <<>>, 0, <<Node("a", <<>>, 0, <<Leaf("id", 3), Leaf("id", 2)>>),
                               Node("a", <<>>, 0, <<Leaf("id", 2), Leaf("id", 4)>>)>>),
      Node("config", <<>>, 0, <<Node("a", <<>>, 0, <<Leaf("id", 5), Leaf("id", 2)>>),
                               Node("a", <<>>, 0, <<Leaf("id", 3)>>)>>),
      Node("config", <<>>, 0, <<Node("b", <<<<"k", 2>>>>, 0, <<>>),
                               Node("b", <<>>, 0, <<Leaf("name", 1)>>),
                               Leaf("b", 3)>>),
      Node("config", <<>>, 0, <<Leaf("b", 2), Leaf("c", 2), Leaf("x", 2)>>),
      Node("config", <<>>, 0, <<Leaf("a", 2), Leaf("c", 3), Leaf("y", 2)>>) }

MergeJoinInputs ==
    {Xml(d) : d \in GenDocs \cup ScenarioDocs \cup IdentityDocs}
    \cup {Blank, Malformed}

InitMJ ==
    /\ \E p \in MergeJoinInputs \X MergeJoinInputs :
           before_xml = p[1] /\ after_xml = p[2]
    /\ pc = "parse_before"
    /\ root_before = None
    /\ root_after = None
    /\ node_keys = <<>>
    /\ stats = ZeroStats
    /\ result_left = None
    /\ result_right = None
    /\ any_change = FALSE
    /\ calls = <<>>
    /\ left_out = <<>>
    /\ right_out = <<>>
    /\ ret = NoReturn

\* root_before = parse_clean(before_xml)
ParseBeforeMJ ==
    /\ pc = "parse_before"
    /\ root_before' = parse_clean_mj(before_xml)
    /\ pc' = "parse_after"
    /\ UNCHANGED <<before_xml, after_xml, root_after, node_keys, stats,
                   result_left, result_right, any_change, calls, left_out,
                   right_out, ret>>

\* root_after = parse_clean(after_xml)
ParseAfterMJ ==
    /\ pc = "parse_after"
    /\ root_after' = parse_clean_mj(after_xml)
    /\ pc' = "init_stats"
    /\ UNCHANGED <<before_xml, after_xml, root_before, node_keys, stats,
                   result_left, result_right, any_change, calls, left_out,
                   right_out, ret>>

\* result_left, result_right, any_change = compare_nodes(root_before,
\* root_after); a TypeError raised in it ends xml_struct_diff
CompareMJ ==
    /\ pc = "compare"
    /\ LET r == compare_nodes_mj(root_before, root_after, stats, 0)
       IN  /\ stats' = r.stats
           /\ calls' = r.calls
           /\ IF r.raised
              THEN /\ pc' = "raised"
                   /\ UNCHANGED <<result_left, result_right, any_change>>
              ELSE /\ pc' = "serialize_left"
                   /\ result_left' = r.res_a
                   /\ result_right' = r.res_b
                   /\ any_change' = r.changed
    /\ UNCHANGED <<before_xml, after_xml, root_before, root_after, node_keys,
                   left_out, right_out, ret>>

\* self.stats, serialize and the return are the statements of the
\* sequence-matching variant
NextMJ ==
    \/ ParseBeforeMJ
    \/ ParseAfterMJ
    \/ InitStats
    \/ CompareMJ
    \/ SerializeLeft
    \/ SerializeRight
    \/ Return

SpecMJ == InitMJ /\ [][NextMJ]_vars

\* ------------------------------------------------------------------------
\* Properties of the merge-join variant
\* ------------------------------------------------------------------------
\* C12: the comparison of two well-formed trees completes without raising: no
\* call of compare_nodes is left by an exception, so None is never appended
\* to an output container, in particular not when a key-matched child pair
\* reports no change.
C12_MergeJoinNeverRaises ==
    /\ pc # "raised"
    /\ \A i \in 1..Len(calls) : ~calls[i].raised

\* e is d with its children at two positions exchanged, two different
\* siblings of one identity key
SwappedEqualKeys(d, e) ==
    /\ d.tag = e.tag /\ d.attrib = e.attrib /\ d.text = e.text
    /\ Len(d.children) = Len(e.children)
    /\ \E i, j \in 1..Len(d.children) :
           /\ i < j
           /\ d.children[i] # d.children[j]
           /\ get_identity_key(d.children[i]) = get_identity_key(d.children[j])
           /\ e.children = [d.children EXCEPT ![i] = d.children[j],
                                              ![j] = d.children[i]]

\* C13 (field-based identity, merge-join variant): when the after document
\* is the before document with two siblings of equal identity keys
\* exchanged, the diff completes and reports changed = false with all
\* counters zero, also when the two siblings differ in what is not part of
\* the key.
C13_SwapInvisible ==
    (/\ pc \in {"serialize_left", "serialize_right", "return", "done", "raised"}
     /\ before_xml.kind = "xml" /\ after_xml.kind = "xml"
     /\ SwappedEqualKeys(before_xml.root, after_xml.root)) =>
        /\ pc # "raised"
        /\ ~any_change
        /\ stats = ZeroStats
        /\ pc = "done" => ret = UnchangedReturn

\* ------------------------------------------------------------------------
\* Properties of the sequence-matching variant, continued
\* ------------------------------------------------------------------------
\* C14: when an input string is malformed markup the operation fails at the
\* parser, before the comparison: compare_nodes is never called, and no
\* statistics, no rendered output and no return value come from that input.
C14_MalformedRejected ==
    (before_xml = Malformed \/ after_xml = Malformed) =>
        /\ pc \notin {"serialize_left", "serialize_right", "return", "done"}
        /\ calls = <<>>
        /\ left_out = <<>> /\ right_out = <<>>
        /\ ret = NoReturn

\* elem is an unstyled copy of the input node: same tag, attributes, trimmed
\* text and children
RECURSIVE VerbatimCopy(_, _)
VerbatimCopy(elem, node) ==
    /\ elem.tag = node.tag
    /\ elem.attrib = node.attrib
    /\ elem.diff_style = ""
    /\ elem.text.style = ""
    /\ strip(elem.text.body) = strip(node.text)
    /\ Len(elem.children) = Len(node.children)
    /\ \A k \in 1..Len(node.children) :
           VerbatimCopy(elem.children[k], node.children[k])

\* has_child_changes before the k-th pass of the loops of the i-th call
FlagBefore(i, k) == IF k = 1 THEN FALSE ELSE calls[i].slots[k - 1].flag

\* the k-th pass of the i-th call read a child on both sides, both with a tag
\* of the context-tag set
ContextPair(i, k) ==
    /\ calls[i].slots[k].a # None
    /\ calls[i].slots[k].b # None
    /\ calls[i].slots[k].a.tag \in CONTEXT_TAGS
    /\ calls[i].slots[k].b.tag \in CONTEXT_TAGS

\* the k-th pass of the i-th call appended unstyled copies of both children
\* and left has_child_changes and the counters as they were
KeptAsContext(i, k) ==
    /\ calls[i].slots[k].how = "context"
    /\ Len(calls[i].slots[k].out_a) = 1
    /\ Len(calls[i].slots[k].out_b) = 1
    /\ VerbatimCopy(calls[i].slots[k].out_a[1], calls[i].slots[k].a)
    /\ VerbatimCopy(calls[i].slots[k].out_b[1], calls[i].slots[k].b)
    /\ calls[i].slots[k].flag = FlagBefore(i, k)
    /\ calls[i].slots[k].s1 = calls[i].slots[k].s0

\* C15 as claimed (context-tag rule): in compare_nodes on a same-tag pair,
\* every paired child slot whose two children have a tag of the context-tag
\* set copies both children verbatim, does not set has_child_changes and
\* changes no counter, in an equal block and in a replace block alike.
C15_ContextRuleAnyBlock ==
    \A i \in 1..Len(calls) :
        \A k \in 1..Len(calls[i].slots) :
            ContextPair(i, k) => KeptAsContext(i, k)

\* C15 (context-tag rule, amended): every paired child slot of an equal block
\* whose children have a tag of the context-tag set copies both children
\* verbatim, does not set has_child_changes and changes no counter; a
\* same-tag pair of a replace block is compared like any other child, also
\* when its tag is in the context-tag set: what compare_nodes returns for
\* it decides has_child_changes and what is appended.
C15_ContextRule ==
    \A i \in 1..Len(calls) :
        \A k \in 1..Len(calls[i].slots) :
            ContextPair(i, k) =>
                /\ calls[i].slots[k].how \in {"context", "replace"}
                /\ calls[i].slots[k].how = "context" => KeptAsContext(i, k)
                /\ calls[i].slots[k].how = "replace" =>
                       \E j \in ChildCalls(i) :
                           /\ calls[j].a = calls[i].slots[k].a
                           /\ calls[j].b = calls[i].slots[k].b
                           /\ calls[j].s0 = calls[i].slots[k].s0
                           /\ calls[j].s1 = calls[i].slots[k].s1
                           /\ calls[i].slots[k].flag
                                  = (FlagBefore(i, k) \/ calls[j].changed)
                           /\ calls[i].slots[k].out_a
                                  = IF calls[j].changed THEN <<calls[j].res_a>>
                                    ELSE <<>>
                           /\ calls[i].slots[k].out_b
                                  = IF calls[j].changed THEN <<calls[j].res_b>>
                                    ELSE <<>>

\* a changed pair kept a context child of an equal block, and another call
\* compared a name pair of a replace block and counted it as modified
C15_Witness ==
    /\ pc = "done"
    /\ \E i \in 1..Len(calls) : \E k \in 1..Len(calls[i].slots) :
           /\ ContextPair(i, k)
           /\ calls[i].slots[k].how = "context"
           /\ calls[i].changed
    /\ \E i \in 1..Len(calls) : \E k \in 1..Len(calls[i].slots) :
           /\ ContextPair(i, k)
           /\ calls[i].slots[k].how = "replace"
           /\ calls[i].slots[k].s1.modified = calls[i].slots[k].s0.modified + 1

\* the k-th pass of the i-th call read an unchanged pair of a context tag:
\* both children present, of a tag of the context-tag set, and of one deep key
UnchangedContextPair(i, k) ==
    /\ ContextPair(i, k)
    /\ node_keys_get(calls[i].slots[k].a) = node_keys_get(calls[i].slots[k].b)

\* the i-th call is on a same-tag pair that survived pruning
Survived(i) ==
    /\ calls[i].a # None
    /\ calls[i].b # None
    /\ calls[i].a.tag = calls[i].b.tag
    /\ calls[i].changed

\* C16 (context retention): when a same-tag pair survives pruning, every
\* unchanged child pair with a tag of the context-tag set appears in both
\* outputs, at its position in sibling order (the children of the outputs are
\* what the passes over the siblings appended, in their order), without a
\* change style, and with the same number of lines on both sides.
C16_ContextRetention ==
    \A i \in 1..Len(calls) :
        Survived(i) =>
            /\ calls[i].res_a.children
                   = Concat([k \in 1..Len(calls[i].slots) |-> calls[i].slots[k].out_a],
                            1, Len(calls[i].slots))
            /\ calls[i].res_b.children
                   = Concat([k \in 1..Len(calls[i].slots) |-> calls[i].slots[k].out_b],
                            1, Len(calls[i].slots))
            /\ \A k \in 1..Len(calls[i].slots) :
                   UnchangedContextPair(i, k) =>
                       /\ Len(calls[i].slots[k].out_a) = 1
                       /\ Len(calls[i].slots[k].out_b) = 1
                       /\ VerbatimCopy(calls[i].slots[k].out_a[1], calls[i].slots[k].a)
                       /\ VerbatimCopy(calls[i].slots[k].out_b[1], calls[i].slots[k].b)
                       /\ Len(serialize(calls[i].slots[k].out_a[1], 1))
                              = Len(serialize(calls[i].slots[k].out_b[1], 1))

\* the i-th call is on a pair of the same tag
SameTagPair(i) ==
    /\ calls[i].a # None
    /\ calls[i].b # None
    /\ calls[i].a.tag = calls[i].b.tag

\* the attribute mappings of the pair of the i-th call differ, or its
\* trimmed texts do
AttribOrTextDiffer(i) ==
    \/ {calls[i].a.attrib[n] : n \in 1..Len(calls[i].a.attrib)}
           # {calls[i].b.attrib[n] : n \in 1..Len(calls[i].b.attrib)}
    \/ strip(calls[i].a.text) # strip(calls[i].b.text)

\* by how much the passes over the children of the i-th call raised modified
ModifiedBelow(i) ==
    SumSeq([k \in 1..Len(calls[i].slots) |->
               calls[i].slots[k].s1.modified - calls[i].slots[k].s0.modified],
           1, Len(calls[i].slots))

\* C17 (sequence-matching variant): a same-tag pair passed to compare_nodes is
\* Modified exactly when its attribute mappings differ or its trimmed texts
\* differ. Then modified goes up by exactly 1 for the pair itself, however
\* many children changed, and both output nodes carry the Modified style,
\* with the old text on the before side and the new text on the after side;
\* otherwise the pair itself does not raise modified and its outputs, if it
\* survives, are unstyled.
C17_ModifiedRule ==
    \A i \in 1..Len(calls) :
        SameTagPair(i) =>
            IF AttribOrTextDiffer(i)
            THEN /\ calls[i].s1.modified - calls[i].s0.modified
                       = 1 + ModifiedBelow(i)
                 /\ calls[i].changed
                 /\ calls[i].res_a.diff_style = "color:#ff8800;"
                 /\ calls[i].res_b.diff_style = "color:#ff8800;"
                 /\ calls[i].res_a.text
                       = SpanText("color:#ff8800;", strip(calls[i].a.text))
                 /\ calls[i].res_b.text
                       = SpanText("color:#ff8800;", strip(calls[i].b.text))
            ELSE /\ calls[i].s1.modified - calls[i].s0.modified
                       = ModifiedBelow(i)
                 /\ calls[i].changed =>
                       /\ calls[i].res_a.diff_style = ""
                       /\ calls[i].res_b.diff_style = ""
                       /\ calls[i].res_a.text = PlainText(strip(calls[i].a.text))
                       /\ calls[i].res_b.text = PlainText(strip(calls[i].b.text))

\* a pair modified by its attributes alone, with a modified child below it
C17_Witness ==
    /\ pc = "done"
    /\ \E i \in 1..Len(calls) :
           /\ SameTagPair(i)
           /\ strip(calls[i].a.text) = strip(calls[i].b.text)
           /\ AttribOrTextDiffer(i)
           /\ ModifiedBelow(i) >= 1
           /\ calls[i].s1.modified = calls[i].s0.modified + 1 + ModifiedBelow(i)

\* a same-tag pair passed to the merge-join compare_nodes whose attribute
\* mappings differ while the trimmed texts are equal
AttribOnlyPair(i) ==
    /\ calls[i].a # None
    /\ calls[i].b # None
    /\ calls[i].a.tag = calls[i].b.tag
    /\ Range(calls[i].a.attrib) # Range(calls[i].b.attrib)
    /\ strip(calls[i].a.text) = strip(calls[i].b.text)

\* C18: in the merge-join variant a same-tag pair whose attribute mappings
\* differ while the trimmed texts are equal is reported as Modified: the
\* call counts one modification for the pair, returns both result nodes (the
\* pair is not pruned) and reports changed.
C18_AttribOnlyModified ==
    \A i \in 1..Len(calls) :
        (AttribOnlyPair(i) /\ ~calls[i].raised) =>
            /\ calls[i].s1.modified >= calls[i].s0.modified + 1
            /\ calls[i].res_a # None
            /\ calls[i].res_b # None
            /\ calls[i].changed

\* the children of one side that the slots of call i hold, in slot order
SlotChildrenA(i) ==
    LET used == SelectSeq(calls[i].slots, LAMBDA sl : sl.a # None)
    IN  [k \in 1..Len(used) |-> used[k].a]

SlotChildrenB(i) ==
    LET used == SelectSeq(calls[i].slots, LAMBDA sl : sl.b # None)
    IN  [k \in 1..Len(used) |-> used[k].b]

\* C19: the alignment of the children of a same-tag pair assigns every child
\* of the before node and every child of the after node to exactly one slot
\* (matched, removed-only or inserted-only), and the slots list the children
\* of each side in that side's order: the children held by the slots are,
\* side by side, exactly the two child sequences.
C19_AlignmentCoverage ==
    \A i \in 1..Len(calls) :
        (calls[i].a # None /\ calls[i].b # None /\ calls[i].a.tag = calls[i].b.tag) =>
            /\ SlotChildrenA(i) = calls[i].a.children
            /\ SlotChildrenB(i) = calls[i].b.children
            /\ \A k \in 1..Len(calls[i].slots) :
                   calls[i].slots[k].a # None \/ calls[i].slots[k].b # None

\* the cursors after step k of call i: those the next step starts from, and
\* after the last step those of a finished loop, both sides exhausted
CursorsAfter(i, k) ==
    IF k < Len(calls[i].slots)
    THEN <<calls[i].slots[k + 1].idx_a, calls[i].slots[k + 1].idx_b>>
    ELSE <<Len(calls[i].a.children), Len(calls[i].b.children)>>

\* step k of call i follows the rule on the current children c_a and c_b
StepFollowsRule(i, k, idx_a, idx_b, c_a, c_b) ==
    IF c_a # None /\ c_b # None /\ get_identity_key(c_a) = get_identity_key(c_b)
    THEN /\ calls[i].slots[k].branch = "match"
         /\ calls[i].slots[k].a = c_a
         /\ calls[i].slots[k].b = c_b
         /\ CursorsAfter(i, k) = <<idx_a + 1, idx_b + 1>>
    ELSE IF c_b = None
            \/ (c_a # None
                /\ IdentityCmp(get_identity_key(c_a), get_identity_key(c_b), 1) < 0)
    THEN /\ calls[i].slots[k].branch = "removed"
         /\ calls[i].slots[k].a = c_a
         /\ calls[i].slots[k].b = None
         /\ CursorsAfter(i, k) = <<idx_a + 1, idx_b>>
    ELSE /\ calls[i].slots[k].branch = "added"
         /\ calls[i].slots[k].a = None
         /\ calls[i].slots[k].b = c_b
         /\ CursorsAfter(i, k) = <<idx_a, idx_b + 1>>

\* C20: the merge-join of the children of a same-tag pair, both sorted by
\* identity key, starts with both cursors at the first child and at each
\* step emits a matched pair and advances both cursors when the two current
\* keys are equal, otherwise emits the side with the smaller key alone
\* (removed-only for the before side, inserted-only for the after side) and
\* advances only that cursor; once one side is exhausted every remaining
\* child of the other side is emitted one-sided, until both are exhausted.
C20_MergeJoinStepRule ==
    \A i \in 1..Len(calls) :
        (calls[i].a # None /\ calls[i].b # None /\ calls[i].a.tag = calls[i].b.tag) =>
            /\ CursorsAfter(i, 0) = <<0, 0>>
            /\ \A k \in 1..Len(calls[i].slots) :
                   /\ calls[i].slots[k].idx_a < Len(calls[i].a.children)
                      \/ calls[i].slots[k].idx_b < Len(calls[i].b.children)
                   /\ StepFollowsRule(i, k,
                          calls[i].slots[k].idx_a, calls[i].slots[k].idx_b,
                          child_at(calls[i].a.children, calls[i].slots[k].idx_a),
                          child_at(calls[i].b.children, calls[i].slots[k].idx_b))

\* ------------------------------------------------------------------------
\* The replace rule of the sequence-matching variant
\* ------------------------------------------------------------------------
\* what a pass of a loop body read and how it treated it
Treated(how, c_a, c_b) == [how |-> how, a |-> c_a, b |-> c_b]

\* the passes the replace rule prescribes for the k-th positional pair
\* (0-based) of a replace block
ReplacePairPasses(op, A, B, k) ==
    IF A[op.i1 + k + 1].tag = B[op.j1 + k + 1].tag
    THEN <<Treated("replace", A[op.i1 + k + 1], B[op.j1 + k + 1])>>
    ELSE <<Treated("one_sided", A[op.i1 + k + 1], None),
           Treated("one_sided", None, B[op.j1 + k + 1])>>

\* the passes the replace rule prescribes for a replace block of lengths
\* m = i2 - i1 and n = j2 - j1: the first min(m, n) positions paired, then
\* the rest of the longer side one-sided
ReplacePasses(op, A, B, m, n) ==
    Concat([k \in 1..Min(m, n) |-> ReplacePairPasses(op, A, B, k - 1)],
           1, Min(m, n))
    \o [k \in 1..(m - Min(m, n)) |->
           Treated("one_sided", A[op.i1 + Min(m, n) + k], None)]
    \o [k \in 1..(n - Min(m, n)) |->
           Treated("one_sided", None, B[op.j1 + Min(m, n) + k])]

\* the number of passes of the loop bodies for a block of another kind
OtherPasses(op) ==
    IF op.tag = "insert" THEN op.j2 - op.j1 ELSE op.i2 - op.i1

\* the passes logged for the i-th call from the one after position `from`,
\* `n` of them, as Treated records
LoggedPasses(i, from, n) ==
    [k \in 1..n |-> Treated(calls[i].slots[from + k].how,
                            calls[i].slots[from + k].a,
                            calls[i].slots[from + k].b)]

\* the opcodes of the i-th call from the n-th on follow the replace rule,
\* the passes of the opcodes before them being the first `from` logged
RECURSIVE ReplaceRuleFrom(_, _, _, _)
ReplaceRuleFrom(i, ops, n, from) ==
    IF n > Len(ops) THEN from = Len(calls[i].slots)
    ELSE IF ops[n].tag = "replace"
    THEN LET want == ReplacePasses(ops[n], calls[i].a.children,
                                   calls[i].b.children,
                                   ops[n].i2 - ops[n].i1, ops[n].j2 - ops[n].j1)
         IN  /\ from + Len(want) <= Len(calls[i].slots)
             /\ LoggedPasses(i, from, Len(want)) = want
             /\ ReplaceRuleFrom(i, ops, n + 1, from + Len(want))
    ELSE ReplaceRuleFrom(i, ops, n + 1, from + OtherPasses(ops[n]))

\* the opcodes difflib gives for the children of the pair of the i-th call
OpcodesOf(i) == get_opcodes(child_keys(calls[i].a), child_keys(calls[i].b))

\* C21: in a replace block of lengths m (before) and n (after) the children
\* are paired by position for the first min(m, n) positions; a positional
\* pair of equal tags is compared by one call of compare_nodes on the pair, a
\* positional pair of different tags is a removal call followed by an
\* addition call; the remaining |m - n| children of the longer side are each
\* handled one-sided, the other argument of the call absent.
C21_ReplaceRule ==
    \A i \in 1..Len(calls) :
        SameTagPair(i) => ReplaceRuleFrom(i, OpcodesOf(i), 1, 0)

\* a replace block with a pair of equal tags, a pair of different tags and
\* a rest of the longer side
C21_Witness ==
    /\ pc = "done"
    /\ \E i \in 1..Len(calls) :
           /\ SameTagPair(i)
           /\ \E n \in 1..Len(OpcodesOf(i)) :
                  LET op == OpcodesOf(i)[n]
                  IN  /\ op.tag = "replace"
                      /\ op.i2 - op.i1 # op.j2 - op.j1
                      /\ \E k \in 0..(Min(op.i2 - op.i1, op.j2 - op.j1) - 1) :
                             calls[i].a.children[op.i1 + k + 1].tag
                                 = calls[i].b.children[op.j1 + k + 1].tag
                      /\ \E k \in 0..(Min(op.i2 - op.i1, op.j2 - op.j1) - 1) :
                             calls[i].a.children[op.i1 + k + 1].tag
                                 # calls[i].b.children[op.j1 + k + 1].tag

\* the height rule: a spacer node counts its stored lines, a leaf 1, a
\* container 2, 1 more for a non-empty text, and the heights of its
\* children; the lines of an attached spacer are added
RECURSIVE HeightByRule(_)
HeightByRule(elem) ==
    IF elem.tag = "__spacer__" THEN elem.lines
    ELSE (IF Len(elem.children) = 0 THEN 1
          ELSE 2 + (IF TextShown(elem.text) THEN 1 ELSE 0)
                 + SumSeq([k \in 1..Len(elem.children) |->
                              HeightByRule(elem.children[k])],
                          1, Len(elem.children)))
         + elem.append_spacer

\* count_lines of elem and of every node below it is the height by the rule
\* and the number of line blocks that serialize emits for the node
RECURSIVE HeightIsRendering(_)
HeightIsRendering(elem) ==
    \/ elem = None
    \/ /\ count_lines_mj(elem) = HeightByRule(elem)
       /\ count_lines_mj(elem) = Len(serialize(elem, 0))
       /\ \A k \in 1..Len(elem.children) : HeightIsRendering(elem.children[k])

\* C22 (merge-join variant): for every node of the annotated trees that a
\* call of compare_nodes returns, count_lines follows the height rule and is
\* the number of line blocks that serialize emits for that node, also for a
\* leaf that carries an attached spacer.
C22_HeightIsRendering ==
    \A i \in 1..Len(calls) :
        ~calls[i].raised =>
            /\ HeightIsRendering(calls[i].res_a)
            /\ HeightIsRendering(calls[i].res_b)

\* ------------------------------------------------------------------------
\* The canonicalizer of the sequence-matching variant
\* ------------------------------------------------------------------------
\* s is o with the children of every node reordered: the same tag,
\* attributes and text, and as children, each as often as it occurs, the
\* reordered children of o
RECURSIVE Reordered(_, _)
Reordered(o, s) ==
    /\ s.tag = o.tag
    /\ s.attrib = o.attrib
    /\ s.text = o.text
    /\ Len(s.children) = Len(o.children)
    /\ \A k \in 1..Len(s.children) :
           Cardinality({j \in 1..Len(s.children) : s.children[j] = s.children[k]})
               = Cardinality({j \in 1..Len(o.children) :
                                 Reordered(o.children[j], s.children[k])})

\* in s and below it the children are in non-decreasing order of their keys,
\* and the key of each node is its tag, its sorted attribute items, its
\* trimmed text and the keys of its children in their order
RECURSIVE KeyedInOrder(_)
KeyedInOrder(s) ==
    /\ s \in DOMAIN node_keys
    /\ node_keys[s] = <<s.tag, sorted_items(s.attrib), strip(s.text),
                        [k \in 1..Len(s.children) |-> node_keys_get(s.children[k])]>>
    /\ \A k \in 1..(Len(s.children) - 1) :
           KeyCmp(node_keys_get(s.children[k]), node_keys_get(s.children[k + 1])) <= 0
    /\ \A k \in 1..Len(s.children) : KeyedInOrder(s.children[k])

\* C23: after sort_and_key on a tree the children of every node are in
\* non-decreasing order of identity key and are a permutation of the
\* original children, no tag, attribute or text is altered, and the key of
\* each node is built from the keys of its children in their sorted order.
C23_Canonicalizer ==
    /\ root_before # None =>
           /\ Reordered(before_xml.root, root_before)
           /\ KeyedInOrder(root_before)
    /\ root_after # None =>
           /\ Reordered(after_xml.root, root_after)
           /\ KeyedInOrder(root_after)

\* a tree that sort_and_key reordered at the root and in a child of the root
C23_Witness ==
    /\ root_before # None
    /\ [k \in 1..Len(root_before.children) |-> root_before.children[k].tag]
           # [k \in 1..Len(before_xml.root.children) |->
                  before_xml.root.children[k].tag]
    /\ \E k \in 1..Len(root_before.children) :
           /\ Len(root_before.children[k].children) >= 2
           /\ \A j \in 1..Len(before_xml.root.children) :
                  before_xml.root.children[j] # root_before.children[k]

\* ------------------------------------------------------------------------
\* Termination and the visits of the input nodes
\* ------------------------------------------------------------------------
\* control leaves a statement: it moves on to a later statement, to the
\* return or to the point where an exception ends xml_struct_diff
Advance ==
    /\ pc \notin {"done", "raised"}
    /\ pc' \in {"parse_after", "init_stats", "compare", "serialize_left",
               "serialize_right", "return", "done", "raised"}

\* a statement that control has reached runs: control stays at no statement
\* other than the end of xml_struct_diff
SpecLive == Spec /\ WF_pc(Advance)

SpecMJLive == SpecMJ /\ WF_pc(Advance)

\* the passes of the i-th call that called compare_nodes: all but the copies
\* of context children
CallingSlots(i) ==
    {k \in 1..Len(calls[i].slots) :
        ~("how" \in DOMAIN calls[i].slots[k] /\ calls[i].slots[k].how = "context")}

\* the calls below, the set `below`, are one for each calling pass, the set
\* `passes`, in the order of the passes and on the children the pass read
OneCallPerPass(i, below, passes) ==
    /\ Cardinality(below) = Cardinality(passes)
    /\ \A c \in below : \A k \in passes :
           Cardinality({d \in below : d <= c}) = Cardinality({j \in passes : j <= k})
               => /\ calls[c].a = calls[i].slots[k].a
                  /\ calls[c].b = calls[i].slots[k].b

\* s is the beginning of t
IsPrefix(s, t) == Len(s) <= Len(t) /\ s = SubSeq(t, 1, Len(s))

\* the i-th call hands each child of its pair to at most one call below it,
\* in the order of the children; a call on a one-sided or different-tag pair
\* makes no call; the loop makes at most len(A) + len(B) passes
VisitsOnce(i) ==
    IF calls[i].a # None /\ calls[i].b # None /\ calls[i].a.tag = calls[i].b.tag
    THEN /\ IsPrefix(SlotChildrenA(i), calls[i].a.children)
         /\ IsPrefix(SlotChildrenB(i), calls[i].b.children)
         /\ OneCallPerPass(i, ChildCalls(i), CallingSlots(i))
         /\ Len(calls[i].slots)
                <= Len(calls[i].a.children) + Len(calls[i].b.children)
    ELSE ChildCalls(i) = {} /\ calls[i].slots = <<>>

\* the one call that is not made by another call is the call on the roots
SingleVisit ==
    /\ \A i \in 1..Len(calls) : VisitsOnce(i)
    /\ calls # <<>> =>
           /\ calls[1].a = root_before
           /\ calls[1].b = root_after
           /\ \A i \in 2..Len(calls) : calls[i].depth > 0

\* C24: for any two finite trees the diff runs to completion (it reaches its
\* return statement and returns), and compare_nodes is called at most once
\* with a given input node as its before argument and at most once with a
\* given input node as its after argument, a one-sided subtree by the one
\* call on its root; the loop over the children of a pair ends after at most
\* len(A) + len(B) passes.
C24_TerminationSingleVisit ==
    /\ <>(pc = "done")
    /\ [](SingleVisit)

\* ------------------------------------------------------------------------
\* The lockstep variant (xml_struct_diff-5.py): sort_tree sorts the children
\* of every node by tag, attributes and text, and compare_nodes compares the
\* i-th child of the one node with the i-th child of the other. Its other
\* statements (count_lines, mark_tree, the one-sided and tag-mismatch cases,
\* is_modified, the pruning, serialize, the return) are those of the
\* sequence-matching variant, and their definitions are used here.
\* ------------------------------------------------------------------------
\* key=lambda child: (child.tag, sorted(child.attrib.items()),
\* (child.text or "").strip()), as a key without child keys
shallow_key(child) ==
    <<child.tag, sorted_items(child.attrib), strip(child.text), <<>>>>

\* node[:] = sorted(node, key=...); for child in node: sort_tree(child)
RECURSIVE sort_tree_ls(_)
sort_tree_ls(node) ==
    LET ordered == sorted_by_key([i \in 1..Len(node.children) |->
                       [node |-> node.children[i],
                        key |-> shallow_key(node.children[i])]])
    IN  [node EXCEPT !.children =
            [i \in 1..Len(ordered) |-> sort_tree_ls(ordered[i].node)]]

\* parse_clean: None for a blank or malformed string, else the sorted root
parse_clean_ls(xml_str) ==
    IF xml_str.kind = "blank" THEN None
    ELSE IF xml_str.kind = "malformed" THEN None
    ELSE sort_tree_ls(xml_str.root)

RECURSIVE compare_nodes_ls(_, _, _, _)
RECURSIVE lockstep_loop(_, _, _, _, _, _)

\* the rest of the loop, once the state acc1 after its first half is computed
lockstep_loop_from(children_a, children_b, mid, hi, depth, acc1) ==
    IF Done(acc1)
    THEN lockstep_loop(children_a, children_b, mid, hi, depth, acc1)
    ELSE acc1

\* for i in range(lo, hi): c_a and c_b are the i-th children, None past the
\* end of the shorter list; the results are appended if changed
lockstep_loop(children_a, children_b, lo, hi, depth, acc) ==
    IF lo >= hi THEN acc
    ELSE IF hi - lo = 1
    THEN compared(acc,
                  compare_nodes_ls(child_at(children_a, lo),
                                   child_at(children_b, lo),
                                   acc.stats, depth + 1),
                  "lockstep")
    ELSE lockstep_loop_from(children_a, children_b, (lo + hi) \div 2, hi, depth,
             lockstep_loop(children_a, children_b, lo, (lo + hi) \div 2, depth,
                           acc))

Max(x, y) == IF x >= y THEN x ELSE y

compare_nodes_ls(node_a, node_b, s0, depth) ==
    IF node_a = None /\ node_b = None
    THEN Returned(node_a, node_b, None, None, FALSE, s0, s0, depth, <<>>, <<>>)
    ELSE IF node_b = None
    THEN \* Node Removed
         removed_result(node_a, mark_tree(deepcopy(node_a), "color:#cc0000;"),
                        s0, depth)
    ELSE IF node_a = None
    THEN \* Node Added
         added_result(node_b, mark_tree(deepcopy(node_b), "color:#00aa00;"),
                      s0, depth)
    ELSE IF node_a.tag # node_b.tag
    THEN \* Compare Tags
         mismatch_result(node_a, node_b,
                         mark_tree(deepcopy(node_a), "color:#cc0000;"),
                         mark_tree(deepcopy(node_b), "color:#00aa00;"), s0, depth)
    ELSE \* Compare Attributes & Text, then the children in lockstep
         same_tag_result(node_a, node_b, is_modified(node_a, node_b),
             lockstep_loop(node_a.children, node_b.children, 0,
                 Max(Len(node_a.children), Len(node_b.children)), depth,
                 [out_a |-> <<>>, out_b |-> <<>>, has_child_changes |-> FALSE,
                  stats |-> s0, calls |-> <<>>, slots |-> <<>>]),
             s0, depth)

\* the documents given to the lockstep variant
LockstepInputs ==
    {Xml(d) : d \in GenDocs \cup ScenarioDocs \cup IdentityDocs}
    \cup {Blank, Malformed}

InitLS ==
    /\ \E p \in LockstepInputs \X LockstepInputs :
           before_xml = p[1] /\ after_xml = p[2]
    /\ pc = "parse_before"
    /\ root_before = None
    /\ root_after = None
    /\ node_keys = <<>>
    /\ stats = ZeroStats
    /\ result_left = None
    /\ result_right = None
    /\ any_change = FALSE
    /\ calls = <<>>
    /\ left_out = <<>>
    /\ right_out = <<>>
    /\ ret = NoReturn

\* root_before = parse_clean(before_xml)
ParseBeforeLS ==
    /\ pc = "parse_before"
    /\ root_before' = parse_clean_ls(before_xml)
    /\ pc' = "parse_after"
    /\ UNCHANGED <<before_xml, after_xml, root_after, node_keys, stats,
                   result_left, result_right, any_change, calls, left_out,
                   right_out, ret>>

\* root_after = parse_clean(after_xml)
ParseAfterLS ==
    /\ pc = "parse_after"
    /\ root_after' = parse_clean_ls(after_xml)
    /\ pc' = "init_stats"
    /\ UNCHANGED <<before_xml, after_xml, root_before, node_keys, stats,
                   result_left, result_right, any_change, calls, left_out,
                   right_out, ret>>

\* result_left, result_right, any_change = compare_nodes(root_before, root_after)
CompareLS ==
    /\ pc = "compare"
    /\ LET r == compare_nodes_ls(root_before, root_after, stats, 0)
       IN  /\ result_left' = r.res_a
           /\ result_right' = r.res_b
           /\ any_change' = r.changed
           /\ stats' = r.stats
           /\ calls' = r.calls
    /\ pc' = "serialize_left"
    /\ UNCHANGED <<before_xml, after_xml, root_before, root_after, node_keys,
                   left_out, right_out, ret>>

NextLS ==
    \/ ParseBeforeLS
    \/ ParseAfterLS
    \/ InitStats
    \/ CompareLS
    \/ SerializeLeft
    \/ SerializeRight
    \/ Return

SpecLS == InitLS /\ [][NextLS]_vars

\* C25 (lockstep variant): moved elements are ignored. When the after tree
\* differs from the before tree only by the order of siblings, at any number
\* of nodes, the diff returns changed = false with all counters zero, also
\* when the reordered siblings have the same tag, attributes and text and
\* different descendants.
C25_LockstepIgnoresMoves ==
    (/\ pc = "done"
     /\ before_xml.kind = "xml"
     /\ after_xml.kind = "xml"
     /\ Permuted(before_xml.root, after_xml.root))
        => /\ ~ret.metadata.changed
           /\ ret.metadata.added_count = 0
           /\ ret.metadata.removed_count = 0
           /\ ret.metadata.changed_count = 0

\* ------------------------------------------------------------------------
\* The deep-sort sequence-matching variant without context tags
\* (xml_struct_diff-7.py). sort_and_key attaches the key to the element
\* (node._sort_key = my_key). An Element of the C implementation of
\* xml.etree accepts no new attribute and the assignment raises
\* AttributeError, which parse_clean does not catch; an Element of the Python
\* implementation accepts it. Which of the two the build has is not decided
\* by the program: both outcomes are modelled. The statements that are those
\* of xml_struct_diff-10.py (count_lines, mark_tree, the one-sided and
\* tag-mismatch cases, is_modified, the pruning, serialize, the return) use
\* the definitions of that variant; node_keys holds the attached keys.
\* ------------------------------------------------------------------------
RECURSIVE compare_nodes_ds(_, _, _, _)

\* a replace pair of different tags: child_res_a of compare_nodes(c_a, None)
\* and child_res_b of compare_nodes(None, c_b) are appended, the two spacers
\* are dropped
replaced_pair_ds(acc, c_a, c_b, r_a, r_b) ==
    Appended(acc, <<r_a.res_a>>, <<r_b.res_b>>, TRUE, r_b.stats,
             r_a.calls \o r_b.calls, "replace", c_a, c_b)

\* the second call of a replace pair of different tags, after the first
removal_then_addition_ds(acc, c_a, c_b, depth, r_a) ==
    replaced_pair_ds(acc, c_a, c_b, r_a,
                     compare_nodes_ds(None, c_b, r_a.stats, depth + 1))

RECURSIVE child_slots_ds(_, _, _, _, _, _, _)

\* one pass of a loop body, by the branch that holds it ("equal", "replace",
\* "remove", "add")
child_slot_ds(branch, c_a, c_b, depth, acc) ==
    IF branch = "equal" \/ (branch = "replace" /\ c_a.tag = c_b.tag)
    THEN compared(acc, compare_nodes_ds(c_a, c_b, acc.stats, depth + 1), branch)
    ELSE IF branch = "replace"
    THEN removal_then_addition_ds(acc, c_a, c_b, depth,
             compare_nodes_ds(c_a, None, acc.stats, depth + 1))
    ELSE IF branch = "remove"
    THEN one_sided(acc, compare_nodes_ds(c_a, None, acc.stats, depth + 1))
    ELSE one_sided(acc, compare_nodes_ds(None, c_b, acc.stats, depth + 1))

\* the rest of a loop, once the state acc1 after its first half is computed
child_slots_from_ds(branch, mid, hi, i0, j0, ctx, acc1) ==
    IF Done(acc1) THEN child_slots_ds(branch, mid, hi, i0, j0, ctx, acc1) ELSE acc1

\* for k in range(lo, hi): the body of the branch on children_a[i0 + k] and
\* children_b[j0 + k] (0-based positions)
child_slots_ds(branch, lo, hi, i0, j0, ctx, acc) ==
    IF lo >= hi THEN acc
    ELSE IF hi - lo = 1
    THEN child_slot_ds(branch,
                       IF branch = "add" THEN None ELSE ctx.children_a[i0 + lo + 1],
                       IF branch = "remove" THEN None ELSE ctx.children_b[j0 + lo + 1],
                       ctx.depth, acc)
    ELSE child_slots_from_ds(branch, (lo + hi) \div 2, hi, i0, j0, ctx,
             child_slots_ds(branch, lo, (lo + hi) \div 2, i0, j0, ctx, acc))

\* Handle Leftovers: the rest of the longer side of a replace block
replace_rest_ds(op, len_a, len_b, ctx, paired) ==
    IF len_a > len_b
    THEN child_slots_ds("remove", len_b, len_a, op.i1, op.j1, ctx, paired)
    ELSE IF len_b > len_a
    THEN child_slots_ds("add", len_a, len_b, op.i1, op.j1, ctx, paired)
    ELSE paired

\* the body of the loop over the opcodes, for one opcode
opcode_body_ds(op, ctx, acc) ==
    IF op.tag = "equal"
    THEN child_slots_ds("equal", 0, op.i2 - op.i1, op.i1, op.j1, ctx, acc)
    ELSE IF op.tag = "replace"
    THEN replace_rest_ds(op, op.i2 - op.i1, op.j2 - op.j1, ctx,
             child_slots_ds("replace", 0, Min(op.i2 - op.i1, op.j2 - op.j1),
                            op.i1, op.j1, ctx, acc))
    ELSE IF op.tag = "delete"
    THEN child_slots_ds("remove", op.i1, op.i2, 0, 0, ctx, acc)
    ELSE IF op.tag = "insert"
    THEN child_slots_ds("add", op.j1, op.j2, 0, 0, ctx, acc)
    ELSE acc

\* for tag, i1, i2, j1, j2 in matcher.get_opcodes()
RECURSIVE opcode_loop_ds(_, _, _, _)

\* the opcodes from the n-th on, once the state acc1 after the opcodes before
\* it is computed
opcode_loop_from_ds(ops, n, ctx, acc1) ==
    IF Done(acc1) THEN opcode_loop_ds(ops, n, ctx, acc1) ELSE acc1

opcode_loop_ds(ops, n, ctx, acc) ==
    IF n > Len(ops) THEN acc
    ELSE opcode_loop_from_ds(ops, n + 1, ctx, opcode_body_ds(ops[n], ctx, acc))

compare_nodes_ds(node_a, node_b, s0, depth) ==
    IF node_a = None /\ node_b = None
    THEN Returned(node_a, node_b, None, None, FALSE, s0, s0, depth, <<>>, <<>>)
    ELSE IF node_b = None
    THEN \* Node Removed
         removed_result(node_a, mark_tree(deepcopy(node_a), "color:#cc0000;"),
                        s0, depth)
    ELSE IF node_a = None
    THEN \* Node Added
         added_result(node_b, mark_tree(deepcopy(node_b), "color:#00aa00;"),
                      s0, depth)
    ELSE IF node_a.tag # node_b.tag
    THEN \* Compare Tags
         mismatch_result(node_a, node_b,
                         mark_tree(deepcopy(node_a), "color:#cc0000;"),
                         mark_tree(deepcopy(node_b), "color:#00aa00;"), s0, depth)
    ELSE \* Compare Attributes & Text, then the children
         same_tag_result(node_a, node_b, is_modified(node_a, node_b),
             opcode_loop_ds(get_opcodes(child_keys(node_a), child_keys(node_b)), 1,
                 [children_a |-> node_a.children, children_b |-> node_b.children,
                  depth |-> depth],
                 [out_a |-> <<>>, out_b |-> <<>>, has_child_changes |-> FALSE,
                  stats |-> s0, calls |-> <<>>, slots |-> <<>>]),
             s0, depth)

\* whether node._sort_key = my_key is accepted, for a build that has not
\* yet shown which Element it has (known: it accepted the assignment before)
SortKeySettable(known) == IF known THEN {TRUE} ELSE BOOLEAN

\* the documents given to the deep-sort variant
DeepSortInputs ==
    {Xml(d) : d \in GenDocs \cup ScenarioDocs} \cup {Blank, Malformed}

InitDS ==
    /\ \E p \in DeepSortInputs \X DeepSortInputs :
           before_xml = p[1] /\ after_xml = p[2]
    /\ pc = "parse_before"
    /\ root_before = None
    /\ root_after = None
    /\ node_keys = <<>>
    /\ stats = ZeroStats
    /\ result_left = None
    /\ result_right = None
    /\ any_change = FALSE
    /\ calls = <<>>
    /\ left_out = <<>>
    /\ right_out = <<>>
    /\ ret = NoReturn

\* root_before = parse_clean(before_xml); the AttributeError of sort_and_key
\* ends xml_struct_diff
ParseBeforeDS ==
    /\ pc = "parse_before"
    /\ \E settable \in SortKeySettable(FALSE) :
           IF before_xml.kind = "xml" /\ ~settable
           THEN /\ pc' = "raised"
                /\ UNCHANGED <<root_before, node_keys>>
           ELSE /\ root_before' = parse_clean(before_xml).root
                /\ node_keys' = parse_clean(before_xml).keys @@ node_keys
                /\ pc' = "parse_after"
    /\ UNCHANGED <<before_xml, after_xml, root_after, stats, result_left,
                   result_right, any_change, calls, left_out, right_out, ret>>

\* root_after = parse_clean(after_xml)
ParseAfterDS ==
    /\ pc = "parse_after"
    /\ \E settable \in SortKeySettable(root_before # None) :
           IF after_xml.kind = "xml" /\ ~settable
           THEN /\ pc' = "raised"
                /\ UNCHANGED <<root_after, node_keys>>
           ELSE /\ root_after' = parse_clean(after_xml).root
                /\ node_keys' = parse_clean(after_xml).keys @@ node_keys
                /\ pc' = "init_stats"
    /\ UNCHANGED <<before_xml, after_xml, root_before, stats, result_left,
                   result_right, any_change, calls, left_out, right_out, ret>>

\* result_left, result_right, any_change = compare_nodes(root_before, root_after)
CompareDS ==
    /\ pc = "compare"
    /\ LET r == compare_nodes_ds(root_before, root_after, stats, 0)
       IN  /\ result_left' = r.res_a
           /\ result_right' = r.res_b
           /\ any_change' = r.changed
           /\ stats' = r.stats
           /\ calls' = r.calls
    /\ pc' = "serialize_left"
    /\ UNCHANGED <<before_xml, after_xml, root_before, root_after, node_keys,
                   left_out, right_out, ret>>

NextDS ==
    \/ ParseBeforeDS
    \/ ParseAfterDS
    \/ InitStats
    \/ CompareDS
    \/ SerializeLeft
    \/ SerializeRight
    \/ Return

SpecDS == InitDS /\ [][NextDS]_vars

\* C26 (deep-sort sequence-matching variant without context tags): the left
\* and the right rendered output have the same number of line blocks for
\* every input pair, also when a replace block pairs by position two
\* children of different tags whose subtrees have different rendered heights.
C26_DeepSortLineBalance ==
    pc = "done" => Len(ret.left) = Len(ret.right)

\* ------------------------------------------------------------------------
\* Two invocations of xml_struct_diff on one FilterModule instance
\* (xml_struct_diff-10.py). self.stats is an attribute of the instance: the
\* statement self.stats = {...} binds it to a new mapping, and
\* self.stats[...] += 1 reads the attribute, reads the counter of the
\* mapping it found there and writes the counter of that mapping. All other
\* state is local to an invocation. In this specification every variable but
\* stats holds a pair, one value per invocation, and stats holds the mappings
\* made so far (dicts, by the invocation that made them) and the one that
\* self.stats is bound to (ref, 0 before the first binding); calls holds,
\* per invocation, the increments still to make (todo) and the mapping and
\* value read by an increment under way (at).
\* ------------------------------------------------------------------------
Invocations == {1, 2}

\* the calls that the i-th call of a call log made: the later calls one
\* level deeper, up to the next call that is not below the i-th
ChildCallsIn(log, i) ==
    {j \in (i + 1)..Len(log) :
        /\ log[j].depth = log[i].depth + 1
        /\ \A k \in (i + 1)..j : log[k].depth > log[i].depth}

\* the counters that the i-th call of a call log and the calls below it
\* increment, in the order of the statements: removed and added at the entry
\* of a one-sided or tag-mismatch call, modified after the loop over the
\* children of a same-tag pair
RECURSIVE IncrementsOf(_, _)
IncrementsOf(log, i) ==
    IF log[i].a = None /\ log[i].b = None THEN <<>>
    ELSE IF log[i].b = None THEN <<"removed">>
    ELSE IF log[i].a = None THEN <<"added">>
    ELSE IF log[i].a.tag # log[i].b.tag THEN <<"removed", "added">>
    ELSE LET below == AscendingSeq(ChildCallsIn(log, i))
         IN  Concat([k \in 1..Len(below) |-> IncrementsOf(log, below[k])],
                    1, Len(below))
             \o (IF is_modified(log[i].a, log[i].b) THEN <<"modified">> ELSE <<>>)

\* the documents given to the two invocations
ConcurrentDocs ==
    {Xml(d) : d \in {g \in GenDocs : Len(g.children) <= 1}} \cup {Blank}

InitTwo ==
    /\ before_xml \in [Invocations -> ConcurrentDocs]
    /\ after_xml \in [Invocations -> ConcurrentDocs]
    /\ pc = [t \in Invocations |-> "parse_before"]
    /\ root_before = [t \in Invocations |-> None]
    /\ root_after = [t \in Invocations |-> None]
    /\ node_keys = <<>>
    /\ stats = [ref |-> 0, dicts |-> [t \in Invocations |-> ZeroStats]]
    /\ result_left = [t \in Invocations |-> None]
    /\ result_right = [t \in Invocations |-> None]
    /\ any_change = [t \in Invocations |-> FALSE]
    /\ calls = [t \in Invocations |-> [todo |-> <<>>, at |-> <<>>]]
    /\ left_out = [t \in Invocations |-> <<>>]
    /\ right_out = [t \in Invocations |-> <<>>]
    /\ ret = [t \in Invocations |-> NoReturn]

\* root_before = parse_clean(before_xml); root_after = parse_clean(after_xml)
ParseTwo(t) ==
    /\ pc[t] = "parse_before"
    /\ root_before' = [root_before EXCEPT ![t] = parse_clean(before_xml[t]).root]
    /\ root_after' = [root_after EXCEPT ![t] = parse_clean(after_xml[t]).root]
    /\ node_keys' = parse_clean(before_xml[t]).keys
                        @@ parse_clean(after_xml[t]).keys @@ node_keys
    /\ pc' = [pc EXCEPT ![t] = "init_stats"]
    /\ UNCHANGED <<before_xml, after_xml, stats, result_left, result_right,
                   any_change, calls, left_out, right_out, ret>>

\* self.stats = {"added": 0, "removed": 0, "modified": 0}; the elements that
\* compare_nodes will return and the increments it will make depend on the
\* trees of the invocation alone
InitStatsTwo(t) ==
    /\ pc[t] = "init_stats"
    /\ stats' = [ref |-> t, dicts |-> [stats.dicts EXCEPT ![t] = ZeroStats]]
    /\ LET r == compare_nodes(root_before[t], root_after[t], ZeroStats, 0)
       IN  /\ result_left' = [result_left EXCEPT ![t] = r.res_a]
           /\ result_right' = [result_right EXCEPT ![t] = r.res_b]
           /\ any_change' = [any_change EXCEPT ![t] = r.changed]
           /\ calls' = [calls EXCEPT ![t] =
                           [todo |-> IncrementsOf(r.calls, 1), at |-> <<>>]]
    /\ pc' = [pc EXCEPT ![t] = "compare"]
    /\ UNCHANGED <<before_xml, after_xml, root_before, root_after, node_keys,
                   left_out, right_out, ret>>

\* self.stats[counter] += 1, first half: the attribute and the counter of
\* the mapping it is bound to are read
LoadTwo(t) ==
    /\ pc[t] = "compare"
    /\ calls[t].todo # <<>>
    /\ calls' = [calls EXCEPT ![t].at =
                    [dict |-> stats.ref,
                     val |-> stats.dicts[stats.ref][Head(calls[t].todo)]]]
    /\ pc' = [pc EXCEPT ![t] = "store"]
    /\ UNCHANGED <<before_xml, after_xml, root_before, root_after, node_keys,
                   stats, result_left, result_right, any_change, left_out,
                   right_out, ret>>

\* self.stats[counter] += 1, second half: the counter of the mapping that
\* was read is written
StoreTwo(t) ==
    /\ pc[t] = "store"
    /\ stats' = [stats EXCEPT !.dicts[calls[t].at.dict][Head(calls[t].todo)] =
                    calls[t].at.val + 1]
    /\ calls' = [calls EXCEPT ![t] = [todo |-> Tail(calls[t].todo), at |-> <<>>]]
    /\ pc' = [pc EXCEPT ![t] = "compare"]
    /\ UNCHANGED <<before_xml, after_xml, root_before, root_after, node_keys,
                   result_left, result_right, any_change, left_out, right_out,
                   ret>>

\* compare_nodes has returned: left_out = serialize(result_left);
\* right_out = serialize(result_right)
SerializeTwo(t) ==
    /\ pc[t] = "compare"
    /\ calls[t].todo = <<>>
    /\ left_out' = [left_out EXCEPT ![t] = serialize(result_left[t], 0)]
    /\ right_out' = [right_out EXCEPT ![t] = serialize(result_right[t], 0)]
    /\ pc' = [pc EXCEPT ![t] = "return"]
    /\ UNCHANGED <<before_xml, after_xml, root_before, root_after, node_keys,
                   stats, result_left, result_right, any_change, calls, ret>>

\* return {...}: the counters are read from the mapping that self.stats is
\* bound to
ReturnTwo(t) ==
    /\ pc[t] = "return"
    /\ ret' = [ret EXCEPT ![t] =
                  [left  |-> IF left_out[t] # <<>> THEN left_out[t] ELSE NoChanges,
                   right |-> IF right_out[t] # <<>> THEN right_out[t] ELSE NoChanges,
                   metadata |->
                       [changed |-> any_change[t],
                        added_count |-> stats.dicts[stats.ref].added,
                        removed_count |-> stats.dicts[stats.ref].removed,
                        changed_count |-> stats.dicts[stats.ref].modified]]]
    /\ pc' = [pc EXCEPT ![t] = "done"]
    /\ UNCHANGED <<before_xml, after_xml, root_before, root_after, node_keys,
                   stats, result_left, result_right, any_change, calls,
                   left_out, right_out>>

NextTwo ==
    \E t \in Invocations :
        \/ ParseTwo(t)
        \/ InitStatsTwo(t)
        \/ LoadTwo(t)
        \/ StoreTwo(t)
        \/ SerializeTwo(t)
        \/ ReturnTwo(t)

SpecTwo == InitTwo /\ [][NextTwo]_vars

\* the counters that the diff of invocation t returns when it runs alone
AloneStats(t) == compare_nodes(root_before[t], root_after[t], ZeroStats, 0).stats

\* C27: the statistics accumulator belongs to one invocation. Of two
\* invocations on one FilterModule instance, run one after the other or
\* interleaved, each returns exactly the counters that its diff returns when
\* run alone.
C27_StatsPerInvocation ==
    \A t \in Invocations :
        pc[t] = "done" =>
            /\ ret[t].metadata.added_count = AloneStats(t).added
            /\ ret[t].metadata.removed_count = AloneStats(t).removed
            /\ ret[t].metadata.changed_count = AloneStats(t).modified

\* ------------------------------------------------------------------------
\* Equal deep keys and the absence of changes
\* ------------------------------------------------------------------------
\* the passes of the i-th call that compared a pair of an equal block
EqualPasses(i) ==
    {k \in 1..Len(calls[i].slots) : calls[i].slots[k].how = "equal"}

\* C28: for two trees the diff reports changed = false exactly when the deep
\* keys of the two roots are equal, and a compare_nodes call on a child pair
\* of an equal block returns no change, appends nothing and increments no
\* counter.
C28_EqualKeysNoChange ==
    /\ pc = "done" /\ root_before # None /\ root_after # None
           => (ret.metadata.changed = FALSE
                   <=> node_keys_get(root_before) = node_keys_get(root_after))
    /\ \A i \in 1..Len(calls) :
           \A k \in EqualPasses(i) :
               /\ calls[i].slots[k].out_a = <<>>
               /\ calls[i].slots[k].out_b = <<>>
               /\ calls[i].slots[k].s1 = calls[i].slots[k].s0

\* two trees that differ in the order of siblings only are reported
\* unchanged, and a pair of an equal block that has children was compared
C28_Witness ==
    /\ pc = "done"
    /\ root_before # None
    /\ root_after # None
    /\ before_xml # after_xml
    /\ Len(root_before.children) >= 2
    /\ ret.metadata.changed = FALSE
    /\ \E i \in 1..Len(calls) :
           \E k \in EqualPasses(i) : Len(calls[i].slots[k].a.children) >= 1

\* ------------------------------------------------------------------------
\* The order of the sequences that the merge-join loop reads
\* ------------------------------------------------------------------------
\* the keys that the loop computes for the children are in non-decreasing
\* order
SortedForMerge(children) ==
    \A k \in 1..(Len(children) - 1) :
        IdentityCmp(get_identity_key(children[k]),
                    get_identity_key(children[k + 1]), 1) <= 0

\* C29: whenever the merge-join loop runs on the children of a pair, each of
\* the two child sequences is sorted in non-decreasing order of the identity
\* key that the loop computes.
C29_MergeJoinSorted ==
    \A i \in 1..Len(calls) :
        SameTagPair(i) =>
            /\ SortedForMerge(calls[i].a.children)
            /\ SortedForMerge(calls[i].b.children)

\* ------------------------------------------------------------------------
\* Where compare_nodes meets two nodes of different tags
\* ------------------------------------------------------------------------
\* the calls of a call log on two nodes of different tags
TagMismatchCalls(log) ==
    {i \in 1..Len(log) :
        /\ log[i].a # None
        /\ log[i].b # None
        /\ log[i].a.tag # log[i].b.tag}

\* the calls that the merge-join variant makes on the two documents
MergeJoinCalls ==
    compare_nodes_mj(parse_clean_mj(before_xml), parse_clean_mj(after_xml),
                     ZeroStats, 0).calls

\* the calls of a call log below the call on the roots
BelowRoot(log) == {i \in 1..Len(log) : log[i].depth > 0}

\* C30: in the sequence-matching variant and in the merge-join variant
\* compare_nodes is entered with two nodes of different tags for the root
\* pair only, never for a child pair, so that the elements returned by the
\* tag-mismatch case are the root output elements.
C30_TagMismatchAtRootOnly ==
    /\ TagMismatchCalls(calls) \cap BelowRoot(calls) = {}
    /\ pc = "done" =>
           /\ TagMismatchCalls(MergeJoinCalls) \cap BelowRoot(MergeJoinCalls) = {}
           /\ \A i \in TagMismatchCalls(calls) :
                  /\ calls[i].res_a = result_left
                  /\ calls[i].res_b = result_right

\* a replace block held a pair of different tags, and the merge-join
\* variant compared children of the same two documents
C30_Witness ==
    /\ pc = "done"
    /\ \E i \in 1..Len(calls) :
           \E k \in 1..(Len(calls[i].slots) - 1) :
               /\ calls[i].slots[k].how = "one_sided"
               /\ calls[i].slots[k + 1].how = "one_sided"
               /\ calls[i].slots[k].b = None
               /\ calls[i].slots[k + 1].a = None
               /\ calls[i].slots[k].a.tag # calls[i].slots[k + 1].b.tag
    /\ \E j \in BelowRoot(MergeJoinCalls) :
           MergeJoinCalls[j].a # None /\ MergeJoinCalls[j].b # None

====
